---- MODULE Spec2Model ----
(***************************************************************************)
(* A model of the finch UI core: the element tree (BaseElement / Node),    *)
(* the geometry resolver (Node.ComputedBounds), the flex layout pass       *)
(* (FlexContainer.updateLayout), the pointer-event router (HandleMouseDown *)
(* / HandleMouseUp / HandleMouseMove of FlexContainer, Button and          *)
(* BaseElement) and the reactive State cell (Update / Watch / Value).      *)
(***************************************************************************)
EXTENDS Integers, Sequences, FiniteSets, TLC

\* ------------------------------------------------------------------ bounds
\* Pointer coordinates delivered by the host range over 0..GridMax on each axis.
GridMax == 1
\* Number of State.Update calls explored.
MaxUpdates == 3
\* Number of State.Watch registrations explored.
MaxWatchers == 2
\* FlexContainer.SetSpacing is called with 0..MaxSpacing.
MaxSpacing == 1
\* AddChild by an arbitrary caller is explored while the receiver holds fewer
\* than MaxChildren children.
MaxChildren == 2
\* Select.SetOptions is called with lists of up to MaxOptions options.
MaxOptions == 3
\* AddTodo is called at most MaxTodos times on a TodoList.
MaxTodos == 3
\* A watcher that updates the State while the value is small does so while
\* the value is below ReentryLimit.
ReentryLimit == 2
\* UI.Tabs is called with up to MaxTabs names.
MaxTabs == 3

VARIABLES
    elems,      \* element id -> the fields of BaseElement, Node, Button and FlexContainer
    last,       \* the most recent tree operation, its arguments, result and call trace
    state,      \* the State cell: [value, watchers]
    notes,      \* one entry per State operation so far: the watcher calls it made
    hist,       \* the value stored by each State.Update so far, in order
    sel,        \* the Select: [options, selectedIndex]
    list,       \* the TodoList: [children, todos, nextID]
    check,      \* the Checkbox: [checked, checkedChanged]
    tabs        \* the tab set built by UI.Tabs: [visible]

vars == <<elems, last, state, notes, hist, sel, list, check, tabs>>

\* ------------------------------------------------------------ the elements
\* The scene: one FlexContainer used as the root the host drives, one plain
\* Node (which keeps the BaseElement handlers) and two Buttons.
Root == "root"
Elems == {"root", "pane", "b1", "b2"}
Kind == [root |-> "FlexContainer", pane |-> "Node", b1 |-> "Button", b2 |-> "Button"]
Buttons == {e \in Elems : Kind[e] = "Button"}
Host == "host"
NoParent == [id |-> "nil", dyn |-> "nil"]

Rect(x, y, w, h) == [X |-> x, Y |-> y, Width |-> w, Height |-> h]
Point(x, y) == [X |-> x, Y |-> y]
Spacing(t, r, b, l) == [Top |-> t, Right |-> r, Bottom |-> b, Left |-> l]
BoxModel(m, p) == [Margin |-> m, Padding |-> p]

\* Go's integer division truncates toward zero.
GoDiv(a, b) == IF a >= 0 THEN a \div b ELSE -((-a) \div b)

PointInRect(p, r) ==
    /\ p.X >= r.X
    /\ p.X < r.X + r.Width
    /\ p.Y >= r.Y
    /\ p.Y < r.Y + r.Height

\* What the function registered with SetOnClick does to the tree when it is
\* called; a handler that only records the click changes nothing.
NoEffect == [op |-> "none"]

\* NewBaseElement + NewNode + NewButton + NewFlexContainer: the fields after
\* construction.
NewElement ==
    [ bounds       |-> Rect(0, 0, 0, 0),
      parent       |-> NoParent,
      children     |-> <<>>,
      mouseOver    |-> FALSE,
      basePressed  |-> FALSE,
      positionType |-> "PositionRelative",
      boxModel     |-> BoxModel(Spacing(0, 0, 0, 0), Spacing(0, 0, 0, 0)),
      relativePos  |-> Point(0, 0),
      visible      |-> TRUE,
      hovered      |-> FALSE,
      pressed      |-> FALSE,
      disabled     |-> FALSE,
      onClick      |-> FALSE,
      callback     |-> NoEffect,
      flexDirection |-> "FlexRow",
      alignItems   |-> "AlignStart",
      justifyContent |-> "AlignStart",
      spacing      |-> 5 ]

\* The dynamic types that satisfy the NodeElement interface: every component
\* built on *Node, but not *BaseElement itself.
ImplementsNodeElement(dyn) == dyn \in {"Node", "Button", "FlexContainer"}

\* -------------------------------------------------- Node.ComputedBounds
RECURSIVE ComputedBounds(_, _)

\* A ComputedBounds without the PositionFixed test; C11 must tell it from the
\* code's method.
ComputedBoundsFixedLikeOthers(els, d) ==
    LET own == els[d].bounds
        par == els[d].parent
        m   == els[d].boxModel.Margin
        pos == IF par # NoParent
               THEN LET parentBounds ==
                            IF ImplementsNodeElement(par.dyn)
                            THEN ComputedBounds(els, par.id)
                            ELSE els[par.id].bounds
                    IN  Rect(parentBounds.X + els[d].relativePos.X,
                             parentBounds.Y + els[d].relativePos.Y,
                             own.Width, own.Height)
               ELSE own
    IN  Rect(pos.X + m.Left, pos.Y + m.Top, pos.Width, pos.Height)

\* A ComputedBounds that also takes the margin out of the size; C12 must tell
\* it from the code's method.
ComputedBoundsMarginShrinks(els, d) ==
    LET own == els[d].bounds
        par == els[d].parent
        m   == els[d].boxModel.Margin
        pos == IF els[d].positionType # "PositionFixed" /\ par # NoParent
               THEN LET parentBounds ==
                            IF ImplementsNodeElement(par.dyn)
                            THEN ComputedBounds(els, par.id)
                            ELSE els[par.id].bounds
                    IN  Rect(parentBounds.X + els[d].relativePos.X,
                             parentBounds.Y + els[d].relativePos.Y,
                             own.Width, own.Height)
               ELSE own
    IN  Rect(pos.X + m.Left, pos.Y + m.Top,
             pos.Width - (m.Left + m.Right), pos.Height - (m.Top + m.Bottom))

ComputedBounds(els, d) ==
    LET own == els[d].bounds
        par == els[d].parent
        m   == els[d].boxModel.Margin
        pos == IF els[d].positionType # "PositionFixed" /\ par # NoParent
               THEN LET parentBounds ==
                            IF ImplementsNodeElement(par.dyn)
                            THEN LET pb  == ComputedBounds(els, par.id)
                                     pad == els[par.id].boxModel.Padding
                                 IN  Rect(pb.X + pad.Left, pb.Y + pad.Top,
                                          pb.Width - (pad.Left + pad.Right),
                                          pb.Height - (pad.Top + pad.Bottom))
                            ELSE els[par.id].bounds
                    IN  Rect(parentBounds.X + els[d].relativePos.X,
                             parentBounds.Y + els[d].relativePos.Y,
                             own.Width, own.Height)
               ELSE own
    IN  Rect(pos.X + m.Left, pos.Y + m.Top, pos.Width, pos.Height)

\* A ComputedBounds that stores its result as the element's bounds; C9 must
\* tell it from the code's method.
ComputedBoundsCached(els, d) ==
    LET cb == ComputedBounds(els, d)
    IN  [ret |-> cb, els |-> [els EXCEPT ![d].bounds = cb]]

\* A call of ComputedBounds as a step of the program: the rectangle returned
\* and the element state the call leaves behind (it writes nothing).
ComputedBoundsCall(els, d) == [ret |-> ComputedBounds(els, d), els |-> els]

\* ------------------------------------------- FlexContainer.updateLayout
RECURSIVE LayoutRow(_, _, _, _, _, _), LayoutColumn(_, _, _, _, _, _)
RECURSIVE LayoutRowCarriesChildren(_, _, _, _, _, _)
RECURSIVE LayoutRowFloorCenter(_, _, _, _, _, _), LayoutColumnAdvanceByWidth(_, _, _, _, _, _)

\* A row pass whose centring rounds down instead of toward zero; C14 must tell
\* it from the code's pass.
LayoutRowFloorCenter(els, f, i, x, contentY, contentHeight) ==
    IF i > Len(els[f].children) THEN els
    ELSE LET child == els[f].children[i]
             cb    == els[child].bounds
             al    == els[f].alignItems
             h     == IF al = "AlignStretch" THEN contentHeight ELSE cb.Height
             y     == CASE al = "AlignStart"   -> contentY
                        [] al = "AlignCenter"  -> contentY + ((contentHeight - cb.Height) \div 2)
                        [] al = "AlignEnd"     -> contentY + contentHeight - cb.Height
                        [] al = "AlignStretch" -> contentY
             els1  == [els EXCEPT ![child].bounds = Rect(x, y, cb.Width, h)]
         IN  LayoutRowFloorCenter(els1, f, i + 1, x + cb.Width + els[f].spacing,
                                  contentY, contentHeight)

\* A column pass that steps down by the child's width; C15 must tell it from
\* the code's pass.
LayoutColumnAdvanceByWidth(els, f, i, y, contentX, contentWidth) ==
    IF i > Len(els[f].children) THEN els
    ELSE LET child == els[f].children[i]
             cb    == els[child].bounds
             al    == els[f].alignItems
             w     == IF al = "AlignStretch" THEN contentWidth ELSE cb.Width
             x     == CASE al = "AlignStart"   -> contentX
                        [] al = "AlignCenter"  -> contentX + GoDiv(contentWidth - cb.Width, 2)
                        [] al = "AlignEnd"     -> contentX + contentWidth - cb.Width
                        [] al = "AlignStretch" -> contentX
             els1  == [els EXCEPT ![child].bounds = Rect(x, y, w, cb.Height)]
         IN  LayoutColumnAdvanceByWidth(els1, f, i + 1, y + cb.Width + els[f].spacing,
                                        contentX, contentWidth)

\* A row pass that moves a child's own children along with it; C23 must tell
\* it from the code's pass.
LayoutRowCarriesChildren(els, f, i, x, contentY, contentHeight) ==
    IF i > Len(els[f].children) THEN els
    ELSE LET child == els[f].children[i]
             cb    == els[child].bounds
             al    == els[f].alignItems
             h     == IF al = "AlignStretch" THEN contentHeight ELSE cb.Height
             y     == CASE al = "AlignStart"   -> contentY
                        [] al = "AlignCenter"  -> contentY + GoDiv(contentHeight - cb.Height, 2)
                        [] al = "AlignEnd"     -> contentY + contentHeight - cb.Height
                        [] al = "AlignStretch" -> contentY
             kids  == { els[child].children[k] : k \in 1..Len(els[child].children) }
             els1  == [e \in Elems |->
                          IF e = child THEN [els[e] EXCEPT !.bounds = Rect(x, y, cb.Width, h)]
                          ELSE IF e \in kids
                               THEN [els[e] EXCEPT !.bounds.X = @ + (x - cb.X),
                                                   !.bounds.Y = @ + (y - cb.Y)]
                               ELSE els[e]]
         IN  LayoutRowCarriesChildren(els1, f, i + 1, x + cb.Width + els[f].spacing,
                                      contentY, contentHeight)

LayoutRow(els, f, i, x, contentY, contentHeight) ==
    IF i > Len(els[f].children) THEN els
    ELSE LET child == els[f].children[i]
             cb    == els[child].bounds
             al    == els[f].alignItems
             h     == IF al = "AlignStretch" THEN contentHeight ELSE cb.Height
             y     == CASE al = "AlignStart"   -> contentY
                        [] al = "AlignCenter"  -> contentY + GoDiv(contentHeight - cb.Height, 2)
                        [] al = "AlignEnd"     -> contentY + contentHeight - cb.Height
                        [] al = "AlignStretch" -> contentY
             els1  == [els EXCEPT ![child].bounds = Rect(x, y, cb.Width, h)]
         IN  LayoutRow(els1, f, i + 1, x + cb.Width + els[f].spacing, contentY, contentHeight)

LayoutColumn(els, f, i, y, contentX, contentWidth) ==
    IF i > Len(els[f].children) THEN els
    ELSE LET child == els[f].children[i]
             cb    == els[child].bounds
             al    == els[f].alignItems
             w     == IF al = "AlignStretch" THEN contentWidth ELSE cb.Width
             x     == CASE al = "AlignStart"   -> contentX
                        [] al = "AlignCenter"  -> contentX + GoDiv(contentWidth - cb.Width, 2)
                        [] al = "AlignEnd"     -> contentX + contentWidth - cb.Width
                        [] al = "AlignStretch" -> contentX
             els1  == [els EXCEPT ![child].bounds = Rect(x, y, w, cb.Height)]
         IN  LayoutColumn(els1, f, i + 1, y + cb.Height + els[f].spacing, contentX, contentWidth)

\* A layout pass that honours justifyContent on the main axis (the free space
\* goes before the children for end, half of it for center); C22 must tell it
\* from the code's pass.
updateLayoutJustified(els, f) ==
    IF Len(els[f].children) = 0 THEN els
    ELSE LET bounds == ComputedBounds(els, f)
             pad    == els[f].boxModel.Padding
             contentX == bounds.X + pad.Left
             contentY == bounds.Y + pad.Top
             contentWidth  == bounds.Width - pad.Left - pad.Right
             contentHeight == bounds.Height - pad.Top - pad.Bottom
             row    == els[f].flexDirection = "FlexRow"
             n      == Len(els[f].children)
             used[i \in 0..n] ==
                 IF i = 0 THEN (n - 1) * els[f].spacing
                 ELSE used[i - 1] + (IF row THEN els[els[f].children[i]].bounds.Width
                                            ELSE els[els[f].children[i]].bounds.Height)
             free   == (IF row THEN contentWidth ELSE contentHeight) - used[n]
             lead   == CASE els[f].justifyContent = "AlignCenter" -> GoDiv(free, 2)
                         [] els[f].justifyContent = "AlignEnd"    -> free
                         [] OTHER -> 0
         IN  IF row
             THEN LayoutRow(els, f, 1, contentX + lead, contentY, contentHeight)
             ELSE LayoutColumn(els, f, 1, contentY + lead, contentX, contentWidth)

updateLayout(els, f) ==
    IF Len(els[f].children) = 0 THEN els
    ELSE LET bounds == ComputedBounds(els, f)
             pad    == els[f].boxModel.Padding
             contentX == bounds.X + pad.Left
             contentY == bounds.Y + pad.Top
             contentWidth  == bounds.Width - pad.Left - pad.Right
             contentHeight == bounds.Height - pad.Top - pad.Bottom
         IN  IF els[f].flexDirection = "FlexRow"
             THEN LayoutRow(els, f, 1, contentX, contentY, contentHeight)
             ELSE LayoutColumn(els, f, 1, contentY, contentX, contentWidth)

\* ------------------------------------ BaseElement / FlexContainer tree ops
\* AddChild appends and stores the receiver, a *BaseElement, as the parent.
\* An AddChild that forgets the back-reference; C17 must tell it from the
\* code's method.
BaseElement_AddChild_NoSetParent(els, b, child) ==
    [els EXCEPT ![b].children = Append(@, child)]

BaseElement_AddChild(els, b, child) ==
    [els EXCEPT ![b].children = Append(@, child),
                ![child].parent = [id |-> b, dyn |-> "BaseElement"]]

IndexOf(s, c) ==
    IF \E i \in 1..Len(s) : s[i] = c
    THEN CHOOSE i \in 1..Len(s) : s[i] = c /\ \A j \in 1..(i - 1) : s[j] # c
    ELSE 0

RemoveAt(s, i) == SubSeq(s, 1, i - 1) \o SubSeq(s, i + 1, Len(s))

BaseElement_RemoveChild(els, b, child) ==
    LET i == IndexOf(els[b].children, child)
    IN  IF i = 0 THEN els ELSE [els EXCEPT ![b].children = RemoveAt(@, i)]

FlexContainer_AddChild(els, f, child) == updateLayout(BaseElement_AddChild(els, f, child), f)

FlexContainer_RemoveChild(els, f, child) == updateLayout(BaseElement_RemoveChild(els, f, child), f)

\* A SetSpacing that forgets the layout pass; C13 must tell it from the code's
\* method.
FlexContainer_SetSpacing_NoLayout(els, f, s) == [els EXCEPT ![f].spacing = s]

FlexContainer_SetSpacing(els, f, s) == updateLayout([els EXCEPT ![f].spacing = s], f)

\* A SetFlexDirection that runs the layout pass; C35 must tell it from the
\* code's method.
FlexContainer_SetFlexDirection_Relayout(els, f, dir) ==
    updateLayout([els EXCEPT ![f].flexDirection = dir], f)

FlexContainer_SetFlexDirection(els, f, dir) == [els EXCEPT ![f].flexDirection = dir]

\* e.SetBounds(r) and e.SetBoxModel(box): the field is stored.
BaseElement_SetBounds(els, e, r) == [els EXCEPT ![e].bounds = r]

Node_SetBoxModel(els, e, box) == [els EXCEPT ![e].boxModel = box]

FlexContainer_SetAlignItems(els, f, al) == [els EXCEPT ![f].alignItems = al]

FlexContainer_SetJustifyContent(els, f, al) == [els EXCEPT ![f].justifyContent = al]

BaseElement_RemoveAllChildren(els, b) == [els EXCEPT ![b].children = <<>>]

\* p.AddChild(c) and p.RemoveChild(c) through the Element interface.
Element_AddChild(els, p, c) ==
    IF Kind[p] = "FlexContainer" THEN FlexContainer_AddChild(els, p, c)
                                 ELSE BaseElement_AddChild(els, p, c)

Element_RemoveChild(els, p, c) ==
    IF Kind[p] = "FlexContainer" THEN FlexContainer_RemoveChild(els, p, c)
                                 ELSE BaseElement_RemoveChild(els, p, c)

\* Whether c occurs in some children sequence.
Attached(els, c) == \E p \in Elems : \E i \in 1..Len(els[p].children) : els[p].children[i] = c

\* A click handler whose effect is put off until after the frame; C24 must
\* tell it from calling the closure.
RunCallbackDeferred(els, b) == els

\* b.onClick(): the application's closure.  The closures modelled are the ones
\* the applications register: adding an element that is not in the tree yet
\* to a container, removing an element from it, and clearing it.
RunCallback(els, b) ==
    LET cb == els[b].callback
    IN  CASE cb.op = "none" -> els
          [] cb.op = "AddChild" -> IF Attached(els, cb.c) THEN els
                                   ELSE Element_AddChild(els, cb.p, cb.c)
          [] cb.op = "RemoveChild" -> Element_RemoveChild(els, cb.p, cb.c)
          [] cb.op = "RemoveAllChildren" -> BaseElement_RemoveAllChildren(els, cb.p)

\* ------------------------------------------------------- the event router
\* One handler invocation: the element, its caller (the parent whose loop
\* offered the event, or the host), the value returned, the handler's local
\* wasPressed / wasHovered / wasOver, whether it invoked onClick, and whether
\* the point was inside the element's ComputedBounds when it was called.
Visit(e, by, ret, was, fired) ==
    [e |-> e, by |-> by, ret |-> ret, was |-> was, fired |-> fired, inside |-> FALSE]

\* What a handler leaves behind: its return value, the element state and the
\* handler invocations it made, in call order.
Outcome(ret, els, trace) == [ret |-> ret, els |-> els, trace |-> trace]

RECURSIVE Handle(_, _, _, _, _, _), Method(_, _, _, _, _, _), DispatchChildren(_, _, _, _, _, _)
RECURSIVE DispatchChildrenForward(_, _, _, _, _, _)

\* A loop that walks the children in insertion order instead (i children are
\* still to be offered the event); C1 must tell it from the code's loop.
DispatchChildrenForward(op, els, p, i, x, y) ==
    IF i < 1 THEN Outcome(FALSE, els, <<>>)
    ELSE LET r == Handle(op, els, els[p].children[Len(els[p].children) - i + 1], p, x, y)
         IN  IF r.ret THEN r
             ELSE LET rest == DispatchChildrenForward(op, r.els, p, i - 1, x, y)
                  IN  Outcome(rest.ret, rest.els, r.trace \o rest.trace)

\* for i := len(children) - 1; i >= 0; i-- { if child.Handle*(x, y) { return true } }
\* (i is the 1-based index of the next child to offer the event to)
\* Children()[i] with i past the end of the current sequence is an
\* index-out-of-range panic, which ends the dispatch.
DispatchChildren(op, els, p, i, x, y) ==
    IF i < 1 THEN Outcome(FALSE, els, <<>>)
    ELSE IF i > Len(els[p].children)
         THEN Outcome(TRUE, els, <<Visit("panic", p, FALSE, FALSE, FALSE)>>)
         ELSE LET r == Handle(op, els, els[p].children[i], p, x, y)
              IN  IF r.ret THEN r
                  ELSE LET rest == DispatchChildren(op, r.els, p, i - 1, x, y)
                       IN  Outcome(rest.ret, rest.els, r.trace \o rest.trace)

\* ---- FlexContainer
FlexContainer_HandleMouseDown(els, f, by, x, y) ==
    IF PointInRect(Point(x, y), ComputedBounds(els, f))
    THEN LET r == DispatchChildren("Down", els, f, Len(els[f].children), x, y)
         IN  Outcome(TRUE, r.els, <<Visit(f, by, TRUE, FALSE, FALSE)>> \o r.trace)
    ELSE Outcome(FALSE, els, <<Visit(f, by, FALSE, FALSE, FALSE)>>)

\* A release handler with the bounds check of HandleMouseDown; C34 must tell
\* it from the code's handler.
FlexContainer_HandleMouseUp_Bounded(els, f, by, x, y) ==
    IF PointInRect(Point(x, y), ComputedBounds(els, f))
    THEN LET r == DispatchChildren("Up", els, f, Len(els[f].children), x, y)
         IN  Outcome(r.ret, r.els, <<Visit(f, by, r.ret, FALSE, FALSE)>> \o r.trace)
    ELSE Outcome(FALSE, els, <<Visit(f, by, FALSE, FALSE, FALSE)>>)

FlexContainer_HandleMouseUp(els, f, by, x, y) ==
    LET r == DispatchChildren("Up", els, f, Len(els[f].children), x, y)
    IN  Outcome(r.ret, r.els, <<Visit(f, by, r.ret, FALSE, FALSE)>> \o r.trace)

FlexContainer_HandleMouseMove(els, f, by, x, y) ==
    LET r == DispatchChildren("Move", els, f, Len(els[f].children), x, y)
    IN  Outcome(r.ret, r.els, <<Visit(f, by, r.ret, FALSE, FALSE)>> \o r.trace)

\* ---- Button
\* A press handler that sets pressed wherever the press lands; C32 must tell
\* it from the code's handler.
Button_HandleMouseDown_Anywhere(els, b, by, x, y) ==
    IF els[b].disabled THEN Outcome(FALSE, els, <<Visit(b, by, FALSE, els[b].pressed, FALSE)>>)
    ELSE LET els1 == [els EXCEPT ![b].pressed = TRUE]
         IN  IF PointInRect(Point(x, y), ComputedBounds(els, b))
             THEN LET r == DispatchChildren("Down", els1, b, Len(els1[b].children), x, y)
                  IN  Outcome(TRUE, r.els, <<Visit(b, by, TRUE, els[b].pressed, FALSE)>> \o r.trace)
             ELSE Outcome(FALSE, els1, <<Visit(b, by, FALSE, els[b].pressed, FALSE)>>)

Button_HandleMouseDown(els, b, by, x, y) ==
    IF els[b].disabled THEN Outcome(FALSE, els, <<Visit(b, by, FALSE, els[b].pressed, FALSE)>>)
    ELSE IF PointInRect(Point(x, y), ComputedBounds(els, b))
         THEN LET els1 == [els EXCEPT ![b].pressed = TRUE]
                  r    == DispatchChildren("Down", els1, b, Len(els1[b].children), x, y)
              IN  Outcome(TRUE, r.els, <<Visit(b, by, TRUE, els[b].pressed, FALSE)>> \o r.trace)
         ELSE Outcome(FALSE, els, <<Visit(b, by, FALSE, els[b].pressed, FALSE)>>)

\* A release handler that forgets to clear pressed; C2 must tell it from the
\* code's handler.
Button_HandleMouseUp_KeepPressed(els, b, by, x, y) ==
    LET wasPressed == els[b].pressed
    IN  IF els[b].disabled THEN Outcome(FALSE, els, <<Visit(b, by, FALSE, wasPressed, FALSE)>>)
        ELSE IF wasPressed /\ PointInRect(Point(x, y), ComputedBounds(els, b))
             THEN Outcome(TRUE, els, <<Visit(b, by, TRUE, wasPressed, els[b].onClick)>>)
             ELSE LET r == DispatchChildren("Up", els, b, Len(els[b].children), x, y)
                  IN  Outcome(r.ret, r.els, <<Visit(b, by, r.ret, wasPressed, FALSE)>> \o r.trace)

\* A release handler that clicks wherever the release lands; C3 must tell it
\* from the code's handler.
Button_HandleMouseUp_Anywhere(els, b, by, x, y) ==
    LET wasPressed == els[b].pressed
        els1       == [els EXCEPT ![b].pressed = FALSE]
    IN  IF els1[b].disabled THEN Outcome(FALSE, els1, <<Visit(b, by, FALSE, wasPressed, FALSE)>>)
        ELSE IF wasPressed
             THEN Outcome(TRUE, els1, <<Visit(b, by, TRUE, wasPressed, els1[b].onClick)>>)
             ELSE LET r == DispatchChildren("Up", els1, b, Len(els1[b].children), x, y)
                  IN  Outcome(r.ret, r.els, <<Visit(b, by, r.ret, wasPressed, FALSE)>> \o r.trace)

\* A release handler that clicks and then goes on to its child loop, returning
\* what the loop returns; C25 must tell it from the code's handler.
Button_HandleMouseUp_ClickPassesOn(els, b, by, x, y) ==
    LET wasPressed == els[b].pressed
        els1       == [els EXCEPT ![b].pressed = FALSE]
    IN  IF els1[b].disabled THEN Outcome(FALSE, els1, <<Visit(b, by, FALSE, wasPressed, FALSE)>>)
        ELSE LET click == wasPressed /\ PointInRect(Point(x, y), ComputedBounds(els1, b))
                                     /\ els1[b].onClick
                 els2  == IF click THEN RunCallback(els1, b) ELSE els1
                 r     == DispatchChildren("Up", els2, b, Len(els2[b].children), x, y)
             IN  Outcome(r.ret, r.els, <<Visit(b, by, r.ret, wasPressed, click)>> \o r.trace)

\* A release handler that clicks whenever the release lands inside the
\* bounds, pressed before or not; C26 must tell it from the code's handler.
Button_HandleMouseUp_Untracked(els, b, by, x, y) ==
    LET wasPressed == els[b].pressed
        els1       == [els EXCEPT ![b].pressed = FALSE]
    IN  IF els1[b].disabled THEN Outcome(FALSE, els1, <<Visit(b, by, FALSE, wasPressed, FALSE)>>)
        ELSE IF PointInRect(Point(x, y), ComputedBounds(els1, b))
             THEN Outcome(TRUE, IF els1[b].onClick THEN RunCallback(els1, b) ELSE els1,
                          <<Visit(b, by, TRUE, wasPressed, els1[b].onClick)>>)
             ELSE LET r == DispatchChildren("Up", els1, b, Len(els1[b].children), x, y)
                  IN  Outcome(r.ret, r.els, <<Visit(b, by, r.ret, wasPressed, FALSE)>> \o r.trace)

\* A release handler that tests disabled before it clears pressed; C33 must
\* tell it from the code's handler.
Button_HandleMouseUp_DisabledFirst(els, b, by, x, y) ==
    LET wasPressed == els[b].pressed
        els1       == [els EXCEPT ![b].pressed = FALSE]
    IN  IF els[b].disabled THEN Outcome(FALSE, els, <<Visit(b, by, FALSE, wasPressed, FALSE)>>)
        ELSE IF wasPressed /\ PointInRect(Point(x, y), ComputedBounds(els1, b))
             THEN Outcome(TRUE, IF els1[b].onClick THEN RunCallback(els1, b) ELSE els1,
                          <<Visit(b, by, TRUE, wasPressed, els1[b].onClick)>>)
             ELSE LET r == DispatchChildren("Up", els1, b, Len(els1[b].children), x, y)
                  IN  Outcome(r.ret, r.els, <<Visit(b, by, r.ret, wasPressed, FALSE)>> \o r.trace)

Button_HandleMouseUp(els, b, by, x, y) ==
    LET wasPressed == els[b].pressed
        els1       == [els EXCEPT ![b].pressed = FALSE]
    IN  IF els1[b].disabled THEN Outcome(FALSE, els1, <<Visit(b, by, FALSE, wasPressed, FALSE)>>)
        ELSE IF wasPressed /\ PointInRect(Point(x, y), ComputedBounds(els1, b))
             THEN \* onClick is invoked when it is not nil
                  Outcome(TRUE, IF els1[b].onClick THEN RunCallback(els1, b) ELSE els1,
                          <<Visit(b, by, TRUE, wasPressed, els1[b].onClick)>>)
             ELSE LET r == DispatchChildren("Up", els1, b, Len(els1[b].children), x, y)
                  IN  Outcome(r.ret, r.els, <<Visit(b, by, r.ret, wasPressed, FALSE)>> \o r.trace)

\* A move handler that reports only the hover state after the call; C5 must
\* tell it from the code's handler.
Button_HandleMouseMove_NowOnly(els, b, by, x, y) ==
    LET wasHovered == els[b].hovered
        now        == PointInRect(Point(x, y), ComputedBounds(els, b))
        els1       == [els EXCEPT ![b].hovered = now]
        r          == DispatchChildren("Move", els1, b, Len(els1[b].children), x, y)
        ret        == IF r.ret THEN TRUE ELSE now
    IN  Outcome(ret, r.els, <<Visit(b, by, ret, wasHovered, FALSE)>> \o r.trace)

Button_HandleMouseMove(els, b, by, x, y) ==
    LET wasHovered == els[b].hovered
        now        == PointInRect(Point(x, y), ComputedBounds(els, b))
        els1       == [els EXCEPT ![b].hovered = now]
        r          == DispatchChildren("Move", els1, b, Len(els1[b].children), x, y)
        ret        == IF r.ret THEN TRUE ELSE (now \/ wasHovered # now)
    IN  Outcome(ret, r.els, <<Visit(b, by, ret, wasHovered, FALSE)>> \o r.trace)

\* ---- BaseElement (the handlers a plain Node keeps)
IsMouseOver(els, b, x, y) == PointInRect(Point(x, y), els[b].bounds)

BaseElement_HandleMouseDown(els, b, by, x, y) ==
    IF IsMouseOver(els, b, x, y)
    THEN LET els1 == [els EXCEPT ![b].basePressed = TRUE]
             r    == DispatchChildren("Down", els1, b, Len(els1[b].children), x, y)
         IN  Outcome(TRUE, r.els, <<Visit(b, by, TRUE, els[b].basePressed, FALSE)>> \o r.trace)
    ELSE Outcome(FALSE, els, <<Visit(b, by, FALSE, els[b].basePressed, FALSE)>>)

BaseElement_HandleMouseUp(els, b, by, x, y) ==
    LET wasPressed == els[b].basePressed
        els1       == [els EXCEPT ![b].basePressed = FALSE]
        r          == DispatchChildren("Up", els1, b, Len(els1[b].children), x, y)
        ret        == IF wasPressed /\ IsMouseOver(els1, b, x, y) THEN TRUE ELSE r.ret
    IN  Outcome(ret, r.els, <<Visit(b, by, ret, wasPressed, FALSE)>> \o r.trace)

BaseElement_HandleMouseMove(els, b, by, x, y) ==
    LET wasOver == els[b].mouseOver
        over    == IsMouseOver(els, b, x, y)
        els1    == [els EXCEPT ![b].mouseOver = over]
        r       == DispatchChildren("Move", els1, b, Len(els1[b].children), x, y)
        ret     == IF r.ret THEN TRUE ELSE over
    IN  Outcome(ret, r.els, <<Visit(b, by, ret, wasOver, FALSE)>> \o r.trace)

\* child.HandleMouseDown / Up / Move through the Element interface: the method
\* of the child's dynamic type.
Method(op, els, e, by, x, y) ==
    CASE Kind[e] = "FlexContainer" /\ op = "Down" -> FlexContainer_HandleMouseDown(els, e, by, x, y)
      [] Kind[e] = "FlexContainer" /\ op = "Up"   -> FlexContainer_HandleMouseUp(els, e, by, x, y)
      [] Kind[e] = "FlexContainer" /\ op = "Move" -> FlexContainer_HandleMouseMove(els, e, by, x, y)
      [] Kind[e] = "Button" /\ op = "Down" -> Button_HandleMouseDown(els, e, by, x, y)
      [] Kind[e] = "Button" /\ op = "Up"   -> Button_HandleMouseUp(els, e, by, x, y)
      [] Kind[e] = "Button" /\ op = "Move" -> Button_HandleMouseMove(els, e, by, x, y)
      [] Kind[e] = "Node" /\ op = "Down" -> BaseElement_HandleMouseDown(els, e, by, x, y)
      [] Kind[e] = "Node" /\ op = "Up"   -> BaseElement_HandleMouseUp(els, e, by, x, y)
      [] Kind[e] = "Node" /\ op = "Move" -> BaseElement_HandleMouseMove(els, e, by, x, y)

\* A dispatch that offers no event to an element that is not visible; C40
\* must tell it from the code's calls.
Handle_SkipsHidden(op, els, e, by, x, y) ==
    IF ~els[e].visible
    THEN Outcome(FALSE, els, <<Visit(e, by, FALSE, FALSE, FALSE)>>)
    ELSE LET r == Method(op, els, e, by, x, y)
         IN  [r EXCEPT !.trace[1].inside = PointInRect(Point(x, y), ComputedBounds(els, e))]

\* The call, with the observation of where the point lay added to its record.
Handle(op, els, e, by, x, y) ==
    LET r == Method(op, els, e, by, x, y)
    IN  [r EXCEPT !.trace[1].inside = PointInRect(Point(x, y), ComputedBounds(els, e))]

\* ------------------------------------------------------------------ Draw
\* Draw of FlexContainer, Button and Node: return at once when not visible,
\* else paint at ComputedBounds and call Draw on every child in insertion
\* order.  The result is the Draw calls made, in call order: the element, its
\* caller, whether it painted and the rectangle it painted.
RECURSIVE Draw(_, _, _), DrawChildren(_, _, _)

Draw(els, e, by) ==
    IF ~els[e].visible
    THEN <<[e |-> e, by |-> by, painted |-> FALSE, at |-> Rect(0, 0, 0, 0)]>>
    ELSE <<[e |-> e, by |-> by, painted |-> TRUE, at |-> ComputedBounds(els, e)]>>
            \o DrawChildren(els, e, 1)

\* for _, child := range d.Children() { child.Draw(surface) }
DrawChildren(els, p, i) ==
    IF i > Len(els[p].children) THEN <<>>
    ELSE Draw(els, els[p].children[i], p) \o DrawChildren(els, p, i + 1)

\* --------------------------------------------------------- the State cell
\* The transforms passed to Update.
Transforms == {"inc", "same", "zero"}
Apply(t, v) ==
    CASE t = "inc"  -> v + 1
      [] t = "same" -> v
      [] t = "zero" -> 0

\* A watcher is identified by its registration; invoking it records the value
\* it is handed.
Call(w, v) == [w |-> w, v |-> v]

\* A notification pass that runs from the newest watcher to the oldest; C6
\* must tell it from the code's loop.
RECURSIVE NotifyWatchersNewestFirst(_, _)
NotifyWatchersNewestFirst(s, i) ==
    IF i > Len(s.watchers) THEN <<>>
    ELSE NotifyWatchersNewestFirst(s, i + 1) \o <<Call(s.watchers[i], s.value)>>

\* for _, watcher := range s.watchers { watcher(s.value) }
RECURSIVE NotifyWatchers(_, _)
NotifyWatchers(s, i) ==
    IF i > Len(s.watchers) THEN <<>>
    ELSE <<Call(s.watchers[i], s.value)>> \o NotifyWatchers(s, i + 1)

\* An Update that notifies only when the value changed; C7 must tell it from
\* the code's Update.
State_Update_OnChange(s, t) ==
    LET newValue == Apply(t, s.value)
        s1       == [s EXCEPT !.value = newValue]
    IN  [s |-> s1, calls |-> IF newValue = s.value THEN <<>> ELSE NotifyWatchers(s1, 1)]

\* State.Update: the new cell and the watcher calls made
State_Update(s, t) ==
    LET newValue == Apply(t, s.value)
        s1       == [s EXCEPT !.value = newValue]
    IN  [s |-> s1, calls |-> NotifyWatchers(s1, 1)]

\* A Watch that runs a whole notification pass; C8 must tell it from the
\* code's Watch.
State_Watch_NotifyAll(s, watcher) ==
    LET s1 == [s EXCEPT !.watchers = Append(@, watcher)]
    IN  [s |-> s1, calls |-> NotifyWatchers(s1, 1)]

\* State.Watch: the new cell and the watcher calls made
State_Watch(s, watcher) ==
    LET s1 == [s EXCEPT !.watchers = Append(@, watcher)]
    IN  [s |-> s1, calls |-> <<Call(watcher, s1.value)>>]

State_Value(s) == s.value

\* ui.State(initialValue)
NewState(v) == [value |-> v, watchers |-> <<>>]

Updates(log) == SelectSeq(log, LAMBDA b : b.op = "Update")

\* ---- watchers that use the State they watch
\* What a watcher does when it is invoked with v, beside recording v:
\*   "plain"  nothing more;
\*   "bump"   s.Update(inc) while v is below ReentryLimit;
\*   "echo"   s.Update(same), whatever v is;
\*   "sub"    s.Watch(a plain watcher) while fewer than MaxWatchers are registered.
\* Here s.watchers holds the kinds and a watcher is identified by its position.
WatcherKinds == {"plain", "bump", "echo", "sub"}

\* The calls nest as the Go calls do; d is the nesting depth of Update and
\* Watch calls.  A chain of nested calls deeper than MaxDepth is one that no
\* watcher ends ("bump" stops at ReentryLimit, "sub" at MaxWatchers): the
\* goroutine stack grows until the run time stops the program (over).
MaxDepth == ReentryLimit + MaxWatchers + 2

\* A watcher call: the watcher, the value handed over, whether a notification
\* pass or a Watch call made it, the number of watchers the pass ranges over
\* (0 for a Watch call) and the depth.
ReCall(w, v, how, n, d) == [w |-> w, v |-> v, how |-> how, n |-> n, d |-> d]

Ran(s, calls, over) == [s |-> s, calls |-> calls, over |-> over]

RECURSIVE UpdateNested(_, _, _), PassNested(_, _, _, _), InvokeNested(_, _, _, _, _), WatchNested(_, _, _)

\* watcher(s.value) for the watcher at position i
InvokeNested(s, i, how, n, d) ==
    LET v    == s.value
        call == ReCall(i, v, how, n, d)
        kind == s.watchers[i]
        r    == CASE kind = "bump" /\ v < ReentryLimit -> UpdateNested(s, "inc", d + 1)
                  [] kind = "echo" -> UpdateNested(s, "same", d + 1)
                  [] kind = "sub" /\ Len(s.watchers) < MaxWatchers -> WatchNested(s, "plain", d + 1)
                  [] OTHER -> Ran(s, <<>>, FALSE)
    IN  Ran(r.s, <<call>> \o r.calls, r.over)

\* for _, watcher := range s.watchers { watcher(s.value) }: the range
\* expression is evaluated once, so the loop runs over the n watchers there
\* were when it started; s.value is read anew for every call.
PassNested(s, n, i, d) ==
    IF i > n THEN Ran(s, <<>>, FALSE)
    ELSE LET r == InvokeNested(s, i, "pass", n, d)
         IN  IF r.over THEN r
             ELSE LET rest == PassNested(r.s, n, i + 1, d)
                  IN  Ran(rest.s, r.calls \o rest.calls, rest.over)

\* State.Update
UpdateNested(s, t, d) ==
    IF d > MaxDepth THEN Ran(s, <<>>, TRUE)
    ELSE LET s1 == [s EXCEPT !.value = Apply(t, s.value)]
         IN  PassNested(s1, Len(s1.watchers), 1, d)

\* State.Watch
WatchNested(s, kind, d) ==
    IF d > MaxDepth THEN Ran(s, <<>>, TRUE)
    ELSE LET s1 == [s EXCEPT !.watchers = Append(@, kind)]
         IN  InvokeNested(s1, Len(s1.watchers), "watch", 0, d)

\* ----------------------------------------------------------- the Checkbox
\* A Checkbox is a Node with a checked flag and a checkedChanged handler (nil
\* until SetCheckedChanged is called); e is the element that stands for its
\* Node.  The operations return the checkbox and the handler calls made, each
\* call being the value handed over.
NewCheckbox == [checked |-> FALSE, checkedChanged |-> FALSE]

\* A SetChecked that reports the change to the handler; C37 must tell it from
\* the code's method.
Checkbox_SetChecked_Notifies(c, checked) ==
    [c |-> [c EXCEPT !.checked = checked],
     calls |-> IF c.checkedChanged THEN <<checked>> ELSE <<>>]

Checkbox_SetChecked(c, checked) == [c |-> [c EXCEPT !.checked = checked], calls |-> <<>>]

Checkbox_SetCheckedChanged(c) == [c EXCEPT !.checkedChanged = TRUE]

Checkbox_HandleMouseDown(els, e, c, x, y) ==
    IF PointInRect(Point(x, y), ComputedBounds(els, e))
    THEN [ret |-> TRUE, c |-> [c EXCEPT !.checked = ~c.checked],
          calls |-> IF c.checkedChanged THEN <<~c.checked>> ELSE <<>>]
    ELSE [ret |-> FALSE, c |-> c, calls |-> <<>>]

\* ------------------------------------------------------------ the tab set
\* UI.Tabs(names, builder) with n names: the visible flag of each tab's
\* content container after the loop (SetVisible(i == 0), counted from 1 here).
UI_Tabs(n) == [visible |-> [i \in 1..n |-> i = 1]]

\* A click handler that shows its tab and leaves the others as they are; C38
\* must tell it from the code's closure.
TabHeader_OnClick_ShowOnly(t, index) == [t EXCEPT !.visible[index] = TRUE]

\* The onClick closure of tab header index:
\* for j := 0; j < len(tabs); j++ { tabs[j].container.SetVisible(j == index) }
TabHeader_OnClick(t, index) ==
    [t EXCEPT !.visible = [j \in 1..Len(t.visible) |-> j = index]]

\* ----------------------------------------------------------- the TodoList
\* The TodoList is a FlexContainer with a map from id to its Todo components
\* and a counter.  A Todo is identified by its id; the map is the set of the
\* Todos it holds, each with its item and the checked flag of its checkbox.
\* The layout pass of the embedded container moves bounds only and is left
\* out here.
\* NewTodoList(id): no children, an empty todos map, nextID = 1.
NewTodoList == [children |-> <<>>, todos |-> {}, nextID |-> 1]

\* fmt.Sprintf("todo_%d", n)
TodoID(n) == <<"todo", n>>

\* tl.todos[id]: whether the key is there, and the Todo under it.
HasTodo(tl, id) == \E t \in tl.todos : t.item.ID = id
TodoOf(tl, id) == CHOOSE t \in tl.todos : t.item.ID = id

\* NewTodo(id, item, onDelete, onToggle): the checkbox starts as item.Done.
NewTodo(id, text) == [item |-> [ID |-> id, Text |-> text, Done |-> FALSE], checked |-> FALSE]

\* An AddTodo that numbers the new Todo by the count of children; C39 must
\* tell it from the code's method.
TodoList_AddTodo_ByCount(tl, text) ==
    LET id == TodoID(Len(tl.children) + 1)
    IN  [children |-> Append(tl.children, id),
         todos    |-> {t \in tl.todos : t.item.ID # id} \cup {NewTodo(id, text)},
         nextID   |-> tl.nextID + 1]

\* tl.AddTodo(text)
TodoList_AddTodo(tl, text) ==
    LET id == TodoID(tl.nextID)
    IN  [children |-> Append(tl.children, id),
         todos    |-> {t \in tl.todos : t.item.ID # id} \cup {NewTodo(id, text)},
         nextID   |-> tl.nextID + 1]

\* A press on the checkbox of the Todo: Checkbox.HandleMouseDown flips checked
\* and calls checkedChanged, which stores item.Done and calls handleToggle.
TodoList_Toggle(tl, id) ==
    IF ~HasTodo(tl, id) THEN tl
    ELSE LET t  == TodoOf(tl, id)
             t2 == [t EXCEPT !.checked = ~t.checked, !.item.Done = ~t.checked]
         IN  [tl EXCEPT !.todos = (@ \ {t}) \cup {t2}]

\* todo.GetItem().Done: item.Done is refreshed from the checkbox first.
Todo_GetItem(t) == [t.item EXCEPT !.Done = t.checked]

\* A RemoveTodo that forgets the container; C29 must tell it from the code's
\* method.
TodoList_RemoveTodo_MapOnly(tl, id) ==
    IF ~HasTodo(tl, id) THEN tl
    ELSE [tl EXCEPT !.todos = @ \ {TodoOf(tl, id)}]

\* tl.RemoveTodo(id), also reached from the delete button through handleDelete
TodoList_RemoveTodo(tl, id) ==
    IF ~HasTodo(tl, id) THEN tl
    ELSE LET i == IndexOf(tl.children, id)
         IN  [tl EXCEPT !.children = IF i = 0 THEN @ ELSE RemoveAt(@, i),
                        !.todos = @ \ {TodoOf(tl, id)}]

\* for _, id := range toRemove { tl.RemoveTodo(id) }
RECURSIVE RemoveEach(_, _, _)
RemoveEach(tl, toRemove, i) ==
    IF i > Len(toRemove) THEN tl
    ELSE RemoveEach(TodoList_RemoveTodo(tl, toRemove[i]), toRemove, i + 1)

\* The orders in which ranging over the map can yield the completed ids.
CompletedOrders(tl) ==
    LET done == { t.item.ID : t \in { u \in tl.todos : Todo_GetItem(u).Done } }
    IN  { o \in [1..Cardinality(done) -> done] :
            \A i, j \in 1..Cardinality(done) : i # j => o[i] # o[j] }

\* tl.ClearCompleted() when the map yields the completed ids in this order
TodoList_ClearCompleted(tl, toRemove) == RemoveEach(tl, toRemove, 1)

\* ------------------------------------------------------------- the Select
\* NewSelect(id, options)
NewSelect(options) == [options |-> options, selectedIndex |-> -1]

\* A SetOptions that keeps the selection whatever the new list; C27 must tell
\* it from the code's method.
Select_SetOptions_KeepIndex(s, options) == [s EXCEPT !.options = options]

Select_SetOptions(s, options) ==
    [s EXCEPT !.options = options,
              !.selectedIndex = IF @ >= Len(options) THEN -1 ELSE @]

\* Select.SetSelectedIndex with an onChange handler set: the new Select and
\* the onChange calls made (the index each was handed).
Select_SetSelectedIndex(s, index) ==
    IF index >= -1 /\ index < Len(s.options)
    THEN [s |-> [s EXCEPT !.selectedIndex = index], calls |-> <<index>>]
    ELSE [s |-> s, calls |-> <<>>]

\* options[selectedIndex], the slice being indexed from 0
Select_GetSelectedOption(s) ==
    IF s.selectedIndex >= 0 /\ s.selectedIndex < Len(s.options)
    THEN s.options[s.selectedIndex + 1]
    ELSE ""

\* The option lists handed to NewSelect and SetOptions.
OptionLists == UNION { [1..n -> {"a", "b"}] : n \in 0..MaxOptions }

\* ------------------------------------------------------------- the scenes
\* The element state the setup code leaves before the host loop starts: the
\* constructors followed by SetBounds / SetRelativePosition / SetPositionType /
\* SetBoxModel / SetOnClick / SetSpacing calls on still-detached elements.
\* b2 is placed over b1 (off = 0) or beside it (off = 1).
Scene(off, pt) ==
    [e \in Elems |->
        CASE e = "root" -> [NewElement EXCEPT !.bounds = Rect(0, 0, 2, 1), !.spacing = 0]
          [] e = "pane" -> [NewElement EXCEPT !.bounds = Rect(0, 0, 2, 2),
                                               !.boxModel = BoxModel(Spacing(0, 0, 0, 1),
                                                                     Spacing(0, 0, 0, 1))]
          [] e = "b1"   -> [NewElement EXCEPT !.bounds = Rect(0, 0, 1, 1), !.onClick = TRUE,
                                               !.positionType = "PositionAbsolute"]
          [] e = "b2"   -> [NewElement EXCEPT !.bounds = Rect(0, 0, 2, 2), !.onClick = TRUE,
                                               !.relativePos = Point(off, 0),
                                               !.positionType = pt]]

RouterScenes == { Scene(off, "PositionRelative") : off \in {0, 1} }

\* In the second setup b2 and the pane (which carries a margin and a padding)
\* are fixed-positioned.
TreeScenes ==
    { Scene(1, "PositionRelative"),
      [Scene(1, "PositionFixed") EXCEPT !["pane"].positionType = "PositionFixed"] }

\* The setups the layout pass is run from: a root container of 4 x 3 in row
\* or column direction, with or without a padding of 1 on every side, and
\* two buttons of different, non-square sizes (with the padding, b1 is taller
\* and b2 as wide as the content box).
Alignments == {"AlignStart", "AlignCenter", "AlignEnd", "AlignStretch"}

LayoutScene(dir, pad) ==
    [e \in Elems |->
        CASE e = "root" -> [NewElement EXCEPT !.bounds = Rect(0, 0, 4, 3),
                                               !.flexDirection = dir,
                                               !.boxModel = BoxModel(Spacing(0, 0, 0, 0),
                                                                     Spacing(pad, pad, pad, pad)),
                                               !.spacing = 0]
          [] e = "pane" -> [NewElement EXCEPT !.bounds = Rect(0, 0, 2, 2)]
          [] e = "b1"   -> [NewElement EXCEPT !.bounds = Rect(0, 0, 1, 2), !.onClick = TRUE]
          [] e = "b2"   -> [NewElement EXCEPT !.bounds = Rect(0, 0, 2, 1), !.onClick = TRUE]]

LayoutScenes == { LayoutScene(dir, pad) : dir \in {"FlexRow", "FlexColumn"}, pad \in {0, 1} }

\* ------------------------------------------------------- tree structure
RECURSIVE Subtree(_, _)
Subtree(els, e) ==
    {e} \cup UNION { Subtree(els, els[e].children[i]) : i \in 1..Len(els[e].children) }

\* ------------------------------------------------------------ the actions
cellVars == <<state, notes, hist>>
treeVars == <<elems, last>>
formVars == <<check, tabs>>
widgetVars == <<sel, list, check, tabs>>

\* parent.AddChild(child), for a detached child that is not an ancestor of
\* parent (callers build a tree).
AddChild(p, c) ==
    /\ c # Root
    /\ ~Attached(elems, c)
    /\ p \notin Subtree(elems, c)
    /\ elems' = IF Kind[p] = "FlexContainer"
                THEN FlexContainer_AddChild(elems, p, c)
                ELSE BaseElement_AddChild(elems, p, c)
    /\ last' = [op |-> "AddChild", layout |-> Kind[p] = "FlexContainer"]
    /\ UNCHANGED <<cellVars, widgetVars>>

RemoveChild(p, c) ==
    /\ c # Root
    /\ elems' = IF Kind[p] = "FlexContainer"
                THEN FlexContainer_RemoveChild(elems, p, c)
                ELSE BaseElement_RemoveChild(elems, p, c)
    /\ last' = [op |-> "RemoveChild", layout |-> Kind[p] = "FlexContainer"]
    /\ UNCHANGED <<cellVars, widgetVars>>

\* f.SetSpacing(s) and f.SetAlignItems(al) on a FlexContainer.
SetSpacing(f, s) ==
    /\ Kind[f] = "FlexContainer"
    /\ elems' = FlexContainer_SetSpacing(elems, f, s)
    /\ last' = [op |-> "SetSpacing", layout |-> TRUE]
    /\ UNCHANGED <<cellVars, widgetVars>>

SetAlignItems(f, al) ==
    /\ Kind[f] = "FlexContainer"
    /\ elems' = FlexContainer_SetAlignItems(elems, f, al)
    /\ last' = [op |-> "SetAlignItems", layout |-> FALSE]
    /\ UNCHANGED <<cellVars, widgetVars>>

SetJustifyContent(f, al) ==
    /\ Kind[f] = "FlexContainer"
    /\ elems' = FlexContainer_SetJustifyContent(elems, f, al)
    /\ last' = [op |-> "SetJustifyContent", layout |-> FALSE]
    /\ UNCHANGED <<cellVars, widgetVars>>

SetFlexDirection(f, dir) ==
    /\ Kind[f] = "FlexContainer"
    /\ elems' = FlexContainer_SetFlexDirection(elems, f, dir)
    /\ last' = [op |-> "SetFlexDirection", layout |-> FALSE]
    /\ UNCHANGED <<cellVars, widgetVars>>

\* e.SetBounds(r) and e.SetBoxModel(box) on any element.
SetBounds(e, r) ==
    /\ elems' = BaseElement_SetBounds(elems, e, r)
    /\ last' = [op |-> "SetBounds", layout |-> FALSE, e |-> e]
    /\ UNCHANGED <<cellVars, widgetVars>>

SetBoxModel(e, box) ==
    /\ elems' = Node_SetBoxModel(elems, e, box)
    /\ last' = [op |-> "SetBoxModel", layout |-> FALSE]
    /\ UNCHANGED <<cellVars, widgetVars>>

\* p.AddChild(c) by a caller that checks nothing: c may be attached already,
\* to p or elsewhere, and may be p itself or one of its ancestors.
CallAddChild(p, c) ==
    /\ Len(elems[p].children) < MaxChildren
    /\ elems' = Element_AddChild(elems, p, c)
    /\ last' = [op |-> "AddChild", layout |-> Kind[p] = "FlexContainer"]
    /\ UNCHANGED <<cellVars, widgetVars>>

\* p.RemoveAllChildren(); FlexContainer inherits it from BaseElement.
RemoveAllChildren(p) ==
    /\ elems' = BaseElement_RemoveAllChildren(elems, p)
    /\ last' = [op |-> "RemoveAllChildren", layout |-> FALSE]
    /\ UNCHANGED <<cellVars, widgetVars>>

SetDisabled(b, d) ==
    /\ elems' = [elems EXCEPT ![b].disabled = d]
    /\ last' = [op |-> "SetDisabled"]
    /\ UNCHANGED <<cellVars, widgetVars>>

\* The texts typed into the input field.
Texts == {"Buy groceries", "Walk the dog", "Pay bills"}

\* tl.AddTodo(text)
AddTodo(text) ==
    /\ list.nextID <= MaxTodos
    /\ list' = TodoList_AddTodo(list, text)
    /\ last' = [op |-> "AddTodo", id |-> TodoID(list.nextID)]
    /\ UNCHANGED <<elems, cellVars, sel, formVars>>

\* A press on the checkbox of a Todo of the list.
Toggle(id) ==
    /\ HasTodo(list, id)
    /\ list' = TodoList_Toggle(list, id)
    /\ last' = [op |-> "Toggle", id |-> id]
    /\ UNCHANGED <<elems, cellVars, sel, formVars>>

\* tl.RemoveTodo(id): a click on the delete button of a Todo of the list, or
\* a call with any id.
RemoveTodo(id) ==
    /\ list' = TodoList_RemoveTodo(list, id)
    /\ last' = [op |-> "RemoveTodo", id |-> id]
    /\ UNCHANGED <<elems, cellVars, sel, formVars>>

\* tl.ClearCompleted()
ClearCompleted ==
    \E toRemove \in CompletedOrders(list) :
       /\ list' = TodoList_ClearCompleted(list, toRemove)
       /\ last' = [op |-> "ClearCompleted", removed |-> toRemove]
       /\ UNCHANGED <<elems, cellVars, sel, formVars>>

\* e.SetVisible(v)
SetVisible(e, v) ==
    /\ elems' = [elems EXCEPT ![e].visible = v]
    /\ last' = [op |-> "SetVisible"]
    /\ UNCHANGED <<cellVars, widgetVars>>

\* Game.Draw: the root is drawn; no element changes.
DrawFrame ==
    /\ elems' = elems
    /\ last' = [op |-> "Draw", drawn |-> Draw(elems, Root, Host)]
    /\ UNCHANGED <<cellVars, widgetVars>>

\* The buttons the previous operation pressed, when it was a HandleMouseDown.
Armed ==
    IF last.op = "HandleMouseDown"
    THEN { last.trace[i].e : i \in { j \in 1..Len(last.trace) :
                                     Kind[last.trace[j].e] = "Button" /\ last.trace[j].ret } }
    ELSE {}

\* The host delivers a pointer event to the root container.
MouseDown(x, y) ==
    LET r == Handle("Down", elems, Root, Host, x, y)
    IN  /\ elems' = r.els
        /\ last' = [op |-> "HandleMouseDown", ret |-> r.ret,
                    trace |-> r.trace, armed |-> {}]
        /\ UNCHANGED <<cellVars, widgetVars>>

MouseUp(x, y) ==
    LET r == Handle("Up", elems, Root, Host, x, y)
    IN  /\ elems' = r.els
        /\ last' = [op |-> "HandleMouseUp", ret |-> r.ret,
                    trace |-> r.trace, armed |-> Armed]
        /\ UNCHANGED <<cellVars, widgetVars>>

MouseMove(x, y) ==
    LET r == Handle("Move", elems, Root, Host, x, y)
    IN  /\ elems' = r.els
        /\ last' = [op |-> "HandleMouseMove", ret |-> r.ret,
                    trace |-> r.trace, armed |-> {}]
        /\ UNCHANGED <<cellVars, widgetVars>>

\* The buttons whose handler was called.
ButtonsIn(trace) == { trace[i].e : i \in { j \in 1..Len(trace) : trace[j].e \in Buttons } }

\* The same events, with the presses that are still open kept in the record:
\* pending holds the buttons whose HandleMouseDown was called with the point
\* inside their ComputedBounds and whose HandleMouseUp has not been called
\* since; before is pending as it was when the event arrived.
HitBy(trace) == { trace[i].e : i \in { j \in 1..Len(trace) :
                                       trace[j].e \in Buttons /\ trace[j].inside } }

PressAt(x, y) ==
    \E r \in {Handle("Down", elems, Root, Host, x, y)} :
       /\ elems' = r.els
       /\ last' = [op |-> "HandleMouseDown", ret |-> r.ret, trace |-> r.trace,
                   before |-> last.pending, pending |-> last.pending \cup HitBy(r.trace)]
       /\ UNCHANGED <<cellVars, widgetVars>>

ReleaseAt(x, y) ==
    \E r \in {Handle("Up", elems, Root, Host, x, y)} :
       /\ elems' = r.els
       /\ last' = [op |-> "HandleMouseUp", ret |-> r.ret, trace |-> r.trace,
                   before |-> last.pending, pending |-> last.pending \ ButtonsIn(r.trace)]
       /\ UNCHANGED <<cellVars, widgetVars>>

\* b.SetDisabled(d) between the events.
Disable(b, d) ==
    /\ elems' = [elems EXCEPT ![b].disabled = d]
    /\ last' = [op |-> "SetDisabled", before |-> last.pending, pending |-> last.pending]
    /\ UNCHANGED <<cellVars, widgetVars>>

\* A host loop with the two branches exchanged, HandleMouseUp while the button
\* is held and HandleMouseDown otherwise; C30 must tell it from Game.Update.
FirstHandlerSwapped(held) == IF held THEN "Up" ELSE "Down"

\* Game.Update: if ebiten.IsMouseButtonPressed(ebiten.MouseButtonLeft)
\* { HandleMouseDown } else { HandleMouseUp }
FirstHandler(held) == IF held THEN "Down" ELSE "Up"

\* One frame of the host loop: Game.Update, which polls the pointer and
\* calls HandleMouseDown on the root when the left button is held and
\* HandleMouseUp otherwise (r1), then HandleMouseMove (r2); and Game.Draw.
\* The record keeps the calls the first handler made, the elements as that
\* handler left them, and the calls of HandleMouseMove and of Draw.
Frame(held, r1, r2) ==
    [op |-> "Tick", held |-> held, ret |-> r1.ret,
     trace |-> r1.trace, mid |-> r1.els,
     move |-> r2.trace, drawn |-> Draw(r2.els, Root, Host)]

Tick(held, x, y) ==
    \E r1 \in {Handle(FirstHandler(held), elems, Root, Host, x, y)} :
    \E r2 \in {Handle("Move", r1.els, Root, Host, x, y)} :
       /\ elems' = r2.els
       /\ last' = Frame(held, r1, r2)
       /\ UNCHANGED <<cellVars, widgetVars>>

\* The same frame, observed as part of a gesture: the number of frames the
\* button has been held (hold) and then released (rel), each counted up to 2,
\* the buttons the pointer was inside in every frame of the gesture, the
\* buttons whose handler was called in every held frame and in the first
\* released frame, and the onClick calls of each button, counted up to 2.  A
\* gesture starts with the first held frame after a released one.
GestureTick(held, x, y) ==
    \E r1 \in {Handle(FirstHandler(held), elems, Root, Host, x, y)} :
    \E r2 \in {Handle("Move", r1.els, Root, Host, x, y)} :
       LET fresh == last.op # "Tick" \/ (held /\ ~last.held)
           over  == { b \in Buttons : PointInRect(Point(x, y), ComputedBounds(elems, b)) }
           fired == { b \in Buttons : \E i \in 1..Len(r1.trace) :
                                         r1.trace[i].e = b /\ r1.trace[i].fired }
           more(n) == IF n < 2 THEN n + 1 ELSE 2
       IN  /\ elems' = r2.els
           /\ last' = [op |-> "Tick", held |-> held, ret |-> r1.ret, trace |-> r1.trace,
                       hold |-> IF held THEN (IF fresh THEN 1 ELSE more(last.hold))
                                ELSE (IF fresh THEN 0 ELSE last.hold),
                       rel  |-> IF held THEN 0 ELSE (IF fresh THEN 1 ELSE more(last.rel)),
                       inside  |-> IF fresh THEN over ELSE last.inside \cap over,
                       reached |-> IF fresh THEN ButtonsIn(r1.trace)
                                   ELSE IF held \/ last.rel = 0
                                        THEN last.reached \cap ButtonsIn(r1.trace)
                                        ELSE last.reached,
                       clicks  |-> [b \in Buttons |->
                                      LET c == IF fresh THEN 0 ELSE last.clicks[b]
                                      IN  IF b \in fired THEN more(c) ELSE c]]
           /\ UNCHANGED <<cellVars, widgetVars>>

\* e.ComputedBounds(), called from outside a handler (Draw, a test, a caller);
\* n counts the calls made in a row on this element, up to 2.
QueryComputedBounds(e) ==
    LET r == ComputedBoundsCall(elems, e)
    IN  /\ elems' = r.els
        /\ last' = [op |-> "ComputedBounds", e |-> e, ret |-> r.ret,
                    n |-> IF last.op = "ComputedBounds" /\ last.e = e THEN 2 ELSE 1]
        /\ UNCHANGED <<cellVars, widgetVars>>

Update(t) ==
    /\ Len(hist) < MaxUpdates
    /\ LET r == State_Update(state, t)
       IN  /\ state' = r.s
           /\ notes' = Append(notes, [op |-> "Update", t |-> t, calls |-> r.calls])
           /\ hist' = Append(hist, State_Value(r.s))
    /\ UNCHANGED <<treeVars, widgetVars>>

Watch ==
    /\ Len(state.watchers) < MaxWatchers
    /\ LET r == State_Watch(state, Len(state.watchers) + 1)
       IN  /\ state' = r.s
           /\ notes' = Append(notes, [op |-> "Watch", t |-> "none", calls |-> r.calls])
           /\ hist' = hist
    /\ UNCHANGED <<treeVars, widgetVars>>

\* s.Update(t) and s.Watch(watcher) called by the application, with watchers
\* that may use s; the record keeps the calls made and whether the call ran
\* out of stack.  Nothing runs after that.
UpdateWith(t) ==
    /\ ~last.over
    /\ state.value <= ReentryLimit
    /\ \E r \in {UpdateNested(state, t, 1)} :
          /\ state' = r.s
          /\ last' = [op |-> "Update", calls |-> r.calls, over |-> r.over,
                      before |-> Len(state.watchers)]
    /\ UNCHANGED <<elems, notes, hist, widgetVars>>

WatchWith(kind) ==
    /\ ~last.over
    /\ Len(state.watchers) <= MaxWatchers
    /\ \E r \in {WatchNested(state, kind, 1)} :
          /\ state' = r.s
          /\ last' = [op |-> "Watch", calls |-> r.calls, over |-> r.over,
                      before |-> Len(state.watchers)]
    /\ UNCHANGED <<elems, notes, hist, widgetVars>>

\* The element that stands for the Node of the Checkbox.
BoxNode == "pane"

\* c.HandleMouseDown(x, y) on the Checkbox.  The record keeps whether the
\* point was inside, the handler calls, the number of calls in a row that
\* landed inside (up to 2), the checked flag before the call and the flag
\* before the call ahead of it when that one landed inside too.
CheckboxDown(x, y) ==
    LET r      == Checkbox_HandleMouseDown(elems, BoxNode, check, x, y)
        inside == PointInRect(Point(x, y), ComputedBounds(elems, BoxNode))
        again  == last.op = "CheckboxDown" /\ last.n >= 1
    IN  /\ check' = r.c
        /\ last' = [op |-> "CheckboxDown", ret |-> r.ret, calls |-> r.calls,
                    inside |-> inside,
                    n |-> IF ~inside THEN 0 ELSE IF again THEN 2 ELSE 1,
                    before |-> check.checked,
                    origin |-> IF inside /\ again THEN last.before ELSE check.checked]
        /\ UNCHANGED <<elems, cellVars, sel, list, tabs>>

SetChecked(checked) ==
    LET r == Checkbox_SetChecked(check, checked)
    IN  /\ check' = r.c
        /\ last' = [op |-> "SetChecked", calls |-> r.calls, checked |-> checked]
        /\ UNCHANGED <<elems, cellVars, sel, list, tabs>>

SetCheckedChanged ==
    /\ check' = Checkbox_SetCheckedChanged(check)
    /\ last' = [op |-> "SetCheckedChanged"]
    /\ UNCHANGED <<elems, cellVars, sel, list, tabs>>

\* A click on tab header index: its onClick closure runs.
ClickTab(index) ==
    /\ index \in 1..Len(tabs.visible)
    /\ tabs' = TabHeader_OnClick(tabs, index)
    /\ last' = [op |-> "ClickTab", index |-> index]
    /\ UNCHANGED <<elems, cellVars, sel, list, check>>

\* s.SetOptions(options) and s.SetSelectedIndex(index) on the Select; the
\* record of SetSelectedIndex keeps the index selected before the call.
SetOptions(options) ==
    /\ sel' = Select_SetOptions(sel, options)
    /\ last' = [op |-> "SetOptions", before |-> sel.selectedIndex]
    /\ UNCHANGED <<elems, cellVars, list, formVars>>

SetSelectedIndex(index) ==
    LET r == Select_SetSelectedIndex(sel, index)
    IN  /\ sel' = r.s
        /\ last' = [op |-> "SetSelectedIndex", index |-> index,
                    before |-> sel.selectedIndex, calls |-> r.calls]
        /\ UNCHANGED <<elems, cellVars, list, formVars>>

\* ------------------------------------------------------ the specifications
Coords == 0..GridMax

InitCell(v) ==
    /\ state = NewState(v)
    /\ notes = <<>>
    /\ hist = <<>>

\* The Select, the TodoList, the Checkbox and a tab set as constructed, for
\* the runs that do not use them.
InitWidgets ==
    /\ sel = NewSelect(<<>>)
    /\ list = NewTodoList
    /\ check = NewCheckbox
    /\ tabs = UI_Tabs(1)

\* The event router: the application builds the tree and the host delivers
\* pointer events to the root.
Init ==
    /\ elems \in RouterScenes
    /\ last = [op |-> "Setup"]
    /\ InitCell(0)
    /\ InitWidgets

Next ==
    \/ \E p \in Elems, c \in Elems : AddChild(p, c)
    \/ \E x \in Coords, y \in Coords : MouseDown(x, y)
    \/ \E x \in Coords, y \in Coords : MouseUp(x, y)
    \/ \E x \in Coords, y \in Coords : MouseMove(x, y)

Spec == Init /\ [][Next]_vars

\* Press and click: button-down and button-up events, with a button that the
\* application disables and enables.
NextPress ==
    \/ \E p \in Elems, c \in Elems : AddChild(p, c)
    \/ \E d \in BOOLEAN : SetDisabled("b1", d)
    \/ \E x \in Coords, y \in Coords : MouseDown(x, y)
    \/ \E x \in Coords, y \in Coords : MouseUp(x, y)

SpecPress == Init /\ [][NextPress]_vars

\* Hover: pointer moves only.
NextHover ==
    \/ \E p \in Elems, c \in Elems : AddChild(p, c)
    \/ \E x \in Coords, y \in Coords : MouseMove(x, y)

SpecHover == Init /\ [][NextHover]_vars

\* The element tree and its geometry: children are added and removed, and
\* ComputedBounds is read.
InitTree ==
    /\ elems \in TreeScenes
    /\ last = [op |-> "Setup"]
    /\ InitCell(0)
    /\ InitWidgets

NextTree ==
    \/ \E p \in Elems, c \in Elems : AddChild(p, c)
    \/ \E p \in Elems, c \in Elems : RemoveChild(p, c)
    \/ \E e \in Elems : QueryComputedBounds(e)

SpecTree == InitTree /\ [][NextTree]_vars

\* The flex layout: buttons are added to and removed from the root
\* container, its spacing and alignment are set, and RemoveChild is also
\* called on a plain element.
InitLayout ==
    /\ elems \in LayoutScenes
    /\ last = [op |-> "Setup"]
    /\ InitCell(0)
    /\ InitWidgets

NextLayout ==
    \/ \E c \in Buttons : AddChild(Root, c)
    \/ \E p \in {Root, "pane"}, c \in Buttons : RemoveChild(p, c)
    \/ \E s \in 0..MaxSpacing : SetSpacing(Root, s)
    \/ \E al \in Alignments : SetAlignItems(Root, al)

SpecLayout == InitLayout /\ [][NextLayout]_vars

\* The flex layout with justifyContent: the calls that run the layout pass,
\* and SetJustifyContent between them.
NextJustify ==
    \/ \E c \in Buttons : AddChild(Root, c)
    \/ \E c \in Buttons : RemoveChild(Root, c)
    \/ \E s \in 0..MaxSpacing : SetSpacing(Root, s)
    \/ \E al \in Alignments : SetJustifyContent(Root, al)

SpecJustify == InitLayout /\ [][NextJustify]_vars

\* The flex layout and the setters: the calls that run the layout pass, and
\* between them the setters of the container and SetBounds on a child.
NextSetters ==
    \/ \E c \in Buttons : AddChild(Root, c)
    \/ \E c \in Buttons : RemoveChild(Root, c)
    \/ \E s \in 0..MaxSpacing : SetSpacing(Root, s)
    \/ \E dir \in {"FlexRow", "FlexColumn"} : SetFlexDirection(Root, dir)
    \/ SetAlignItems(Root, "AlignEnd")
    \/ SetJustifyContent(Root, "AlignCenter")
    \/ SetBounds(Root, Rect(0, 0, 3, 3))
    \/ SetBounds("b1", Rect(1, 1, 1, 2))
    \/ \E pad \in {0, 1} : SetBoxModel(Root, BoxModel(Spacing(0, 0, 0, 0),
                                                       Spacing(pad, pad, pad, pad)))
    \/ RemoveAllChildren(Root)

SpecSetters == InitLayout /\ [][NextSetters]_vars

\* The flex layout over a nested tree: the pane and b1 are added to and
\* removed from the padded root container, b2 is added to the pane, and the
\* root's spacing and alignment are set.
NestedScenes == { LayoutScene(dir, 1) : dir \in {"FlexRow", "FlexColumn"} }

InitNested ==
    /\ elems \in NestedScenes
    /\ last = [op |-> "Setup"]
    /\ InitCell(0)
    /\ InitWidgets

NextNested ==
    \/ \E c \in {"pane", "b1"} : AddChild(Root, c)
    \/ AddChild("pane", "b2")
    \/ \E c \in {"pane", "b1"} : RemoveChild(Root, c)
    \/ \E s \in 0..MaxSpacing : SetSpacing(Root, s)
    \/ \E al \in Alignments : SetAlignItems(Root, al)

SpecNested == InitNested /\ [][NextNested]_vars

\* The host loop over a tree whose buttons change it when clicked: b1 adds b2
\* to the root container if b2 is in no tree yet, b2 clears the root container.
\* The application builds the tree and the host runs its frames.
TickScene ==
    [Scene(1, "PositionRelative") EXCEPT
        !["b1"].callback = [op |-> "AddChild", p |-> Root, c |-> "b2"],
        !["b2"].callback = [op |-> "RemoveAllChildren", p |-> Root]]

InitTick ==
    /\ elems = TickScene
    /\ last = [op |-> "Setup"]
    /\ InitCell(0)
    /\ InitWidgets

NextTick ==
    \/ \E c \in {"b1", "pane"} : AddChild(Root, c)
    \/ AddChild("pane", "b2")
    \/ \E held \in BOOLEAN, x \in Coords, y \in Coords : Tick(held, x, y)

SpecTick == InitTick /\ [][NextTick]_vars

\* Drawing: the application puts the buttons under the root and takes them
\* out, shows and hides them, and the host draws the root.
NextDraw ==
    \/ \E c \in Buttons : AddChild(Root, c)
    \/ \E c \in Buttons : RemoveChild(Root, c)
    \/ \E b \in Buttons, v \in BOOLEAN : SetVisible(b, v)
    \/ DrawFrame

SpecDraw == Init /\ [][NextDraw]_vars

\* The parent/children graph under arbitrary callers: AddChild without any
\* precondition, RemoveChild and RemoveAllChildren, on the root container, the
\* pane and a button as receivers and the pane and the button as children.
GraphParents == {Root, "pane", "b1"}
GraphChildren == {"pane", "b1"}

NextGraph ==
    \/ \E p \in GraphParents, c \in GraphChildren : CallAddChild(p, c)
    \/ \E p \in GraphParents, c \in GraphChildren : RemoveChild(p, c)
    \/ \E p \in GraphParents : RemoveAllChildren(p)

InitGraph ==
    /\ elems = Scene(1, "PositionRelative")
    /\ last = [op |-> "Setup"]
    /\ InitCell(0)
    /\ InitWidgets

SpecGraph == InitGraph /\ [][NextGraph]_vars

\* The Select on its own, created with any option list.
InitSelect ==
    /\ elems = [e \in Elems |-> NewElement]
    /\ last = [op |-> "Setup"]
    /\ InitCell(0)
    /\ sel \in { NewSelect(options) : options \in OptionLists }
    /\ list = NewTodoList
    /\ check = NewCheckbox
    /\ tabs = UI_Tabs(1)

NextSelect ==
    \/ \E options \in OptionLists : SetOptions(options)
    \/ \E index \in -2..(MaxOptions + 1) : SetSelectedIndex(index)

SpecSelect == InitSelect /\ [][NextSelect]_vars

\* Clicks: the trees the setup code builds before the loop starts (the two
\* buttons side by side under the root in either order, b2 inside b1, and b2
\* inside the pane), then presses and releases at any point, with the
\* buttons disabled and enabled in between.
RECURSIVE Built(_, _)
Built(els, adds) ==
    IF adds = <<>> THEN els
    ELSE Built(Element_AddChild(els, adds[1][1], adds[1][2]), Tail(adds))

BuiltScenes ==
    { Built(s, adds) :
        s \in RouterScenes,
        adds \in { << <<Root, "b1">>, <<Root, "b2">> >>,
                   << <<Root, "b2">>, <<Root, "b1">> >>,
                   << <<Root, "b1">>, <<"b1", "b2">> >>,
                   << <<Root, "pane">>, <<"pane", "b2">>, <<Root, "b1">> >> } }

InitClicks ==
    /\ elems \in BuiltScenes
    /\ last = [op |-> "Setup", before |-> {}, pending |-> {}]
    /\ InitCell(0)
    /\ InitWidgets

NextClicks ==
    \/ \E x \in Coords, y \in Coords : PressAt(x, y)
    \/ \E x \in Coords, y \in Coords : ReleaseAt(x, y)
    \/ \E b \in Buttons, d \in BOOLEAN : Disable(b, d)

SpecClicks == InitClicks /\ [][NextClicks]_vars

\* Gestures: the application puts the buttons under the root and the host
\* loop runs, frame after frame, with the button held or released.
NextGesture ==
    \/ \E c \in Buttons : AddChild(Root, c)
    \/ \E held \in BOOLEAN, x \in Coords, y \in Coords : GestureTick(held, x, y)

SpecGesture == Init /\ [][NextGesture]_vars

\* The TodoList on its own: todos are added, ticked, deleted and cleared.
InitTodo ==
    /\ elems = [e \in Elems |-> NewElement]
    /\ last = [op |-> "Setup"]
    /\ InitCell(0)
    /\ InitWidgets

NextTodo ==
    \/ \E text \in Texts : AddTodo(text)
    \/ \E n \in 1..(MaxTodos + 1) : Toggle(TodoID(n))
    \/ \E n \in 1..(MaxTodos + 1) : RemoveTodo(TodoID(n))
    \/ ClearCompleted

SpecTodo == InitTodo /\ [][NextTodo]_vars

\* The State cell on its own, created with 0 or 5.
InitState ==
    /\ elems = [e \in Elems |-> NewElement]
    /\ last = [op |-> "Setup"]
    /\ \E v \in {0, 5} : InitCell(v)
    /\ InitWidgets

NextState ==
    \/ \E t \in Transforms : Update(t)
    \/ Watch

SpecState == InitState /\ [][NextState]_vars

\* The State cell with watchers that use it.
InitReentrant ==
    /\ elems = [e \in Elems |-> NewElement]
    /\ last = [op |-> "Setup", calls |-> <<>>, over |-> FALSE, before |-> 0]
    /\ InitCell(0)
    /\ InitWidgets

NextReentrant ==
    \/ \E t \in Transforms : UpdateWith(t)
    \/ \E kind \in WatcherKinds : WatchWith(kind)

SpecReentrant == InitReentrant /\ [][NextReentrant]_vars

\* A form with a checkbox and a tab set: the checkbox lies detached or under
\* the root, the tab set has one to MaxTabs tabs; the checkbox is pressed and
\* set, and tab headers are clicked.
FormScenes ==
    { Scene(1, "PositionRelative"), Built(Scene(1, "PositionRelative"), << <<Root, BoxNode>> >>) }

InitForm ==
    /\ elems \in FormScenes
    /\ last = [op |-> "Setup"]
    /\ InitCell(0)
    /\ sel = NewSelect(<<>>)
    /\ list = NewTodoList
    /\ check = NewCheckbox
    /\ tabs \in { UI_Tabs(n) : n \in 1..MaxTabs }

NextForm ==
    \/ \E x \in Coords, y \in Coords : CheckboxDown(x, y)
    \/ \E checked \in BOOLEAN : SetChecked(checked)
    \/ SetCheckedChanged
    \/ \E index \in 1..MaxTabs : ClickTab(index)

SpecForm == InitForm /\ [][NextForm]_vars

\* Visibility: over two of the trees the setup code builds (the buttons one
\* over the other under the root; b2 inside the pane beside b1), elements
\* are shown and hidden, the host delivers pointer events to the root and
\* draws it.
VisibleScenes ==
    { Built(Scene(0, "PositionRelative"), << <<Root, "b1">>, <<Root, "b2">> >>),
      Built(Scene(1, "PositionRelative"),
            << <<Root, "pane">>, <<"pane", "b2">>, <<Root, "b1">> >>) }

InitVisible ==
    /\ elems \in VisibleScenes
    /\ last = [op |-> "Setup"]
    /\ InitCell(0)
    /\ InitWidgets

NextVisible ==
    \/ \E e \in Elems, v \in BOOLEAN : SetVisible(e, v)
    \/ \E x \in Coords, y \in Coords : MouseDown(x, y)
    \/ \E x \in Coords, y \in Coords : MouseUp(x, y)
    \/ \E x \in Coords, y \in Coords : MouseMove(x, y)
    \/ DrawFrame

SpecVisible == InitVisible /\ [][NextVisible]_vars

\* ================================================================ claims
\* ---- observations shared by the claims
IsEvent == last.op \in {"HandleMouseDown", "HandleMouseUp", "HandleMouseMove"}

Reverse(s) == [i \in 1..Len(s) |-> s[Len(s) + 1 - i]]

\* The handler invocations the last event made from p's child loop, in call order.
Offered(p) == SelectSeq(last.trace, LAMBDA t : t.by = p)

LastNote == notes[Len(notes)]

\* Whether the handler invocation t ran its child loop: a press is passed on
\* by an element that accepted it, a release by every element but a disabled
\* button or a button that clicked, a move by every element.
RanChildLoop(t) ==
    CASE last.op = "HandleMouseDown" -> t.ret
      [] last.op = "HandleMouseUp"   -> \/ Kind[t.e] # "Button"
                                        \/ ~elems[t.e].disabled /\ ~(t.was /\ t.inside)
      [] last.op = "HandleMouseMove" -> TRUE

\* The handler invocations of button b in the last event that invoked onClick.
Clicks(b) == { i \in 1..Len(last.trace) : last.trace[i].e = b /\ last.trace[i].fired }

\* ---- C1
\* C1: in HandleMouseDown, HandleMouseUp and HandleMouseMove every element
\* that passes the event on offers it to its children in reverse insertion
\* order, last-added first, and stops at the first child whose handler returns
\* true: the children called are a prefix of the reversed child list, only the
\* last called child may have returned true, and the prefix is the whole list
\* when no child returned true.
C1_ReverseOrderShortCircuit ==
    IsEvent =>
       \A k \in 1..Len(last.trace) :
          LET t    == last.trace[k]
              off  == Offered(t.e)
              kids == Reverse(elems[t.e].children)
          IN  /\ Len(off) <= Len(kids)
              /\ \A i \in 1..Len(off) : /\ off[i].e = kids[i]
                                        /\ off[i].ret => i = Len(off)
              /\ RanChildLoop(t) =>
                    \/ Len(off) = Len(kids)
                    \/ Len(off) > 0 /\ off[Len(off)].ret
              /\ ~RanChildLoop(t) => off = <<>>

\* The root holds three children; the last-added one declined the event, the
\* one before it returned true, and the first-added one was never called.
C1_Witness ==
    /\ IsEvent
    /\ Len(elems[Root].children) = 3
    /\ Len(Offered(Root)) = 2
    /\ Offered(Root)[1].e = elems[Root].children[3]
    /\ ~Offered(Root)[1].ret
    /\ Offered(Root)[2].e = elems[Root].children[2]
    /\ Offered(Root)[2].ret

\* ---- C2
\* C2: an enabled Button with a click callback that receives HandleMouseDown
\* at a point inside its ComputedBounds returns true and is pressed; when the
\* next event is a HandleMouseUp that it receives at a point inside its
\* ComputedBounds, it returns true, is no longer pressed, and has invoked the
\* callback exactly once.
C2_PressThenReleaseClicksOnce ==
    /\ last.op = "HandleMouseDown" =>
          \A k \in 1..Len(last.trace) :
             LET t == last.trace[k]
             IN  (Kind[t.e] = "Button" /\ ~elems[t.e].disabled /\ elems[t.e].onClick /\ t.inside)
                    => t.ret /\ elems[t.e].pressed
    /\ last.op = "HandleMouseUp" =>
          \A k \in 1..Len(last.trace) :
             LET t == last.trace[k]
             IN  (Kind[t.e] = "Button" /\ t.e \in last.armed /\ ~elems[t.e].disabled
                    /\ elems[t.e].onClick /\ t.inside)
                    => t.ret /\ ~elems[t.e].pressed /\ Clicks(t.e) = {k}

\* A button pressed by the previous HandleMouseDown has been released inside
\* its bounds and clicked.
C2_Witness ==
    /\ last.op = "HandleMouseUp"
    /\ \E k \in 1..Len(last.trace) :
          LET t == last.trace[k]
          IN  /\ Kind[t.e] = "Button"
              /\ t.e \in last.armed
              /\ t.inside /\ t.was /\ t.fired /\ t.ret
              /\ ~elems[t.e].pressed

\* ---- C3
\* C3: a Button pressed by a HandleMouseDown inside its bounds that receives
\* the next HandleMouseUp at a point outside its ComputedBounds does not invoke
\* the click callback and is not pressed afterwards.
C3_ReleaseOutsideDoesNotClick ==
    last.op = "HandleMouseUp" =>
       \A k \in 1..Len(last.trace) :
          LET t == last.trace[k]
          IN  (Kind[t.e] = "Button" /\ t.e \in last.armed /\ ~t.inside)
                 => Clicks(t.e) = {} /\ ~elems[t.e].pressed

\* A button pressed by the previous HandleMouseDown has received the release
\* outside its bounds.
C3_Witness ==
    /\ last.op = "HandleMouseUp"
    /\ \E k \in 1..Len(last.trace) :
          LET t == last.trace[k]
          IN  /\ Kind[t.e] = "Button"
              /\ t.e \in last.armed
              /\ t.was /\ ~t.inside
              /\ ~elems[t.e].pressed

\* ---- C4
\* C4: after a HandleMouseUp delivered to the root, no Button in the tree is
\* pressed.  The code does not keep this: the release stops at the first
\* handler that returns true, and a pressed button it never reaches stays
\* pressed.
C4_ReleaseClearsEveryButton ==
    last.op = "HandleMouseUp" =>
       \A b \in Buttons \cap Subtree(elems, Root) : ~elems[b].pressed

\* ---- C5
\* C5 as stated: Button.HandleMouseMove sets hovered to whether the point is
\* inside the button's ComputedBounds and returns true exactly when the button
\* is hovered after the call or was hovered before it.
C5_HoverReturn ==
    last.op = "HandleMouseMove" =>
       \A k \in 1..Len(last.trace) :
          LET t == last.trace[k]
          IN  Kind[t.e] = "Button" =>
                 /\ elems[t.e].hovered = t.inside
                 /\ t.ret = (elems[t.e].hovered \/ t.was)

\* C5, amended: Button.HandleMouseMove sets hovered to whether the point is
\* inside the button's ComputedBounds and returns true exactly when the button
\* is hovered after the call, was hovered before it, or one of its children's
\* HandleMouseMove returned true; so moving into the bounds returns true with
\* hovered going false to true, and a further move inside returns true with
\* hovered staying true.
C5_HoverReturnOrChild ==
    last.op = "HandleMouseMove" =>
       \A k \in 1..Len(last.trace) :
          LET t   == last.trace[k]
              off == Offered(t.e)
          IN  Kind[t.e] = "Button" =>
                 /\ elems[t.e].hovered = t.inside
                 /\ t.ret = (elems[t.e].hovered \/ t.was
                               \/ \E i \in 1..Len(off) : off[i].ret)
                 /\ (~t.was /\ t.inside) => (t.ret /\ elems[t.e].hovered)
                 /\ (t.was /\ t.inside) => (t.ret /\ elems[t.e].hovered)

\* The pointer has moved into a button that was not hovered: it is hovered
\* now and returned true.
C5_Witness ==
    /\ last.op = "HandleMouseMove"
    /\ \E k \in 1..Len(last.trace) :
          LET t == last.trace[k]
          IN  /\ Kind[t.e] = "Button"
              /\ ~t.was /\ t.inside
              /\ elems[t.e].hovered /\ t.ret

\* ---- C6
\* C6: State.Update(transform) stores transform(old value) and, within the
\* call, invokes every registered watcher exactly once with the new value, in
\* registration order; the watcher list itself is left as it was.
C6_UpdateNotifiesAllInOrder ==
    [][ (Len(notes') = Len(notes) + 1 /\ notes'[Len(notes')].op = "Update") =>
          LET n == notes'[Len(notes')]
          IN  /\ state'.value = Apply(n.t, state.value)
              /\ state'.watchers = state.watchers
              /\ n.calls = [i \in 1..Len(state.watchers) |->
                               Call(state.watchers[i], state'.value)] ]_vars

\* An Update that changed the value has just notified two watchers.
C6_Witness ==
    /\ Len(notes) > 0
    /\ LastNote.op = "Update"
    /\ LastNote.t = "inc"
    /\ Len(LastNote.calls) = 2
    /\ LastNote.calls[1].w # LastNote.calls[2].w

\* ---- C7
\* C7: N sequential Update calls produce one notification pass each: the i-th
\* Update's pass hands every watcher registered at that time the value after
\* the i-th update, also when that value equals the previous one; from 0, three
\* Update(v + 1) calls are observed as 1, 2, 3.
C7_OnePassPerUpdate ==
    /\ Len(Updates(notes)) = Len(hist)
    /\ \A j \in 1..Len(notes) :
          notes[j].op = "Update" =>
             LET i == Cardinality({ m \in 1..j : notes[m].op = "Update" })
                 k == Cardinality({ m \in 1..j : notes[m].op = "Watch" })
             IN  \A w \in 1..k :
                    SelectSeq(notes[j].calls, LAMBDA c : c.w = w) = <<Call(w, hist[i])>>

\* A watcher registered on the cell holding 0 has seen 1, 2, 3 from three
\* Update(v + 1) calls.
C7_Witness ==
    /\ Len(notes) = 4
    /\ notes[1].op = "Watch"
    /\ notes[1].calls = <<Call(1, 0)>>
    /\ \A i \in 2..4 : notes[i].op = "Update" /\ notes[i].t = "inc"
                       /\ notes[i].calls = <<Call(1, i - 1)>>
    /\ hist = <<1, 2, 3>>

\* ---- C8
\* C8: State.Watch(cb) appends cb to the watcher list and invokes cb exactly
\* once, within the call, with the value current at that time; no other
\* watcher is invoked and the value is unchanged.
C8_WatchInvokesOnlyNewWatcher ==
    [][ (Len(notes') = Len(notes) + 1 /\ notes'[Len(notes')].op = "Watch") =>
          LET n  == notes'[Len(notes')]
              cb == state'.watchers[Len(state'.watchers)]
          IN  /\ state'.watchers = Append(state.watchers, cb)
              /\ state'.value = state.value
              /\ n.calls = <<Call(cb, state.value)>> ]_vars

\* A second watcher subscribed after an Update and was handed the updated
\* value; the first watcher was not called by that Watch.
C8_Witness ==
    /\ Len(notes) = 3
    /\ notes[1].op = "Watch"
    /\ notes[2].op = "Update" /\ notes[2].t = "inc"
    /\ notes[3].op = "Watch"
    /\ notes[3].calls = <<Call(2, state.value)>>
    /\ state.value = hist[1]

\* ---- C9
\* C9: a ComputedBounds call changes no element state, and a second call on
\* the same element with no mutation in between returns the rectangle the
\* first call returned.
C9_ComputedBoundsIdempotent ==
    [][ last'.op = "ComputedBounds" =>
          /\ elems' = elems
          /\ last'.n = 2 => last'.ret = last.ret ]_vars

\* ComputedBounds has been called twice in a row on an attached element whose
\* result differs from its stored bounds.
C9_Witness ==
    /\ last.op = "ComputedBounds"
    /\ last.n = 2
    /\ elems[last.e].parent # NoParent
    /\ last.ret # elems[last.e].bounds

\* ---- C10
\* C10: for an element with positionType relative or absolute that was
\* attached with AddChild, ComputedBounds X is the X of the parent's own
\* ComputedBounds plus the parent's left padding plus the element's local
\* offset X plus its own left margin, and Y analogously.  The code does not
\* keep this: AddChild records the parent as a *BaseElement, which is no
\* NodeElement, so ComputedBounds takes the parent's stored bounds and never
\* reaches its padding, its margin or its ancestors.
C10_ParentContentBox ==
    \A e \in Elems :
       LET par == elems[e].parent
       IN  (/\ par # NoParent
            /\ \E i \in 1..Len(elems[par.id].children) : elems[par.id].children[i] = e
            /\ elems[e].positionType \in {"PositionRelative", "PositionAbsolute"})
           => LET pcb == ComputedBounds(elems, par.id)
                  pad == elems[par.id].boxModel.Padding
                  m   == elems[e].boxModel.Margin
                  cb  == ComputedBounds(elems, e)
              IN  /\ cb.X = pcb.X + pad.Left + elems[e].relativePos.X + m.Left
                  /\ cb.Y = pcb.Y + pad.Top + elems[e].relativePos.Y + m.Top

\* ---- C11
\* C11: for an element with positionType fixed, ComputedBounds is its local
\* bounds shifted by its own left and top margin only, whatever parent it has.
C11_FixedIgnoresAncestors ==
    \A e \in Elems :
       elems[e].positionType = "PositionFixed" =>
          ComputedBounds(elems, e) =
             Rect(elems[e].bounds.X + elems[e].boxModel.Margin.Left,
                  elems[e].bounds.Y + elems[e].boxModel.Margin.Top,
                  elems[e].bounds.Width, elems[e].bounds.Height)

\* The fixed pane, which has a margin, is attached to a parent, and so is the
\* fixed b2, which has a non-zero local offset.
C11_Witness ==
    /\ elems["pane"].positionType = "PositionFixed"
    /\ elems["pane"].parent # NoParent
    /\ elems["pane"].boxModel.Margin.Left > 0
    /\ elems["b2"].positionType = "PositionFixed"
    /\ elems["b2"].parent # NoParent
    /\ elems["b2"].relativePos.X > 0

\* ---- C12
\* C12: ComputedBounds never changes the size: its Width and Height are those
\* of the local bounds, for every element, attached or not, fixed or not.
C12_SizeUnchanged ==
    \A e \in Elems :
       /\ ComputedBounds(elems, e).Width = elems[e].bounds.Width
       /\ ComputedBounds(elems, e).Height = elems[e].bounds.Height

\* The pane, which has a margin and a padding, is attached and holds a child;
\* its ComputedBounds is shifted away from its local bounds.
C12_Witness ==
    /\ elems["pane"].parent # NoParent
    /\ ComputedBounds(elems, "pane").X # elems["pane"].bounds.X
    /\ \E c \in Elems : elems[c].parent = [id |-> "pane", dyn |-> "BaseElement"]

\* ---- observations of the layout pass
\* The content box updateLayout places the children in.
ContentBox(els, f) ==
    LET b   == ComputedBounds(els, f)
        pad == els[f].boxModel.Padding
    IN  Rect(b.X + pad.Left, b.Y + pad.Top,
             b.Width - pad.Left - pad.Right, b.Height - pad.Top - pad.Bottom)

\* The step was an AddChild, RemoveChild or SetSpacing call on the root container.
LayoutStep == last'.op \in {"AddChild", "RemoveChild", "SetSpacing"} /\ last'.layout

\* The last operation was such a call.
LaidOut == last.op \in {"AddChild", "RemoveChild", "SetSpacing"} /\ last.layout

\* ---- C13
\* C13: after every AddChild, RemoveChild or SetSpacing on a row-direction
\* FlexContainer the children's local bounds satisfy child[0].X = content-box
\* X and child[i+1].X = child[i].X + child[i].Width + spacing, and every
\* child's Width is what it was before the call.
C13_RowMainAxis ==
    [][ (LayoutStep /\ elems'[Root].flexDirection = "FlexRow") =>
          LET ch == elems'[Root].children
          IN  /\ Len(ch) > 0 => elems'[ch[1]].bounds.X = ContentBox(elems', Root).X
              /\ \A i \in 1..(Len(ch) - 1) :
                    elems'[ch[i + 1]].bounds.X =
                       elems'[ch[i]].bounds.X + elems'[ch[i]].bounds.Width + elems'[Root].spacing
              /\ \A i \in 1..Len(ch) :
                    elems'[ch[i]].bounds.Width = elems[ch[i]].bounds.Width ]_vars

\* SetSpacing(1) on a row with children of width 1 and 2 and the content box
\* at x = 0 has put them at X = 0 and X = 2.
C13_Witness ==
    /\ last.op = "SetSpacing"
    /\ elems[Root].flexDirection = "FlexRow"
    /\ elems[Root].spacing = 1
    /\ elems[Root].children = <<"b1", "b2">>
    /\ ContentBox(elems, Root).X = 0
    /\ elems["b1"].bounds.X = 0 /\ elems["b1"].bounds.Width = 1
    /\ elems["b2"].bounds.X = 2 /\ elems["b2"].bounds.Width = 2

\* ---- C14
\* C14: a row layout pass places each child on the cross axis by alignItems:
\* start gives Y = contentY; center gives Y = contentY + (contentHeight -
\* childHeight) / 2 with the quotient truncated toward zero; end gives Y =
\* contentY + contentHeight - childHeight; stretch gives Y = contentY and
\* Height = contentHeight; for start, center and end the Height is unchanged.
C14_RowCrossAxis ==
    [][ (LayoutStep /\ elems'[Root].flexDirection = "FlexRow") =>
          LET ch   == elems'[Root].children
              box  == ContentBox(elems', Root)
              al   == elems'[Root].alignItems
              half(d) == IF d >= 0 THEN d \div 2 ELSE -((-d) \div 2)
          IN  \A i \in 1..Len(ch) :
                 LET old == elems[ch[i]].bounds
                     new == elems'[ch[i]].bounds
                 IN  CASE al = "AlignStart"   -> new.Y = box.Y /\ new.Height = old.Height
                       [] al = "AlignCenter"  -> /\ new.Y = box.Y + half(box.Height - old.Height)
                                                 /\ new.Height = old.Height
                       [] al = "AlignEnd"     -> /\ new.Y = box.Y + box.Height - old.Height
                                                 /\ new.Height = old.Height
                       [] al = "AlignStretch" -> new.Y = box.Y /\ new.Height = box.Height ]_vars

\* A centred row pass has placed a child that is one unit taller than the
\* content box: the quotient -1/2 is 0, so the child starts at contentY.
C14_Witness ==
    /\ LaidOut
    /\ elems[Root].flexDirection = "FlexRow"
    /\ elems[Root].alignItems = "AlignCenter"
    /\ \E i \in 1..Len(elems[Root].children) :
          LET c == elems[Root].children[i]
          IN  /\ ContentBox(elems, Root).Height - elems[c].bounds.Height = -1
              /\ elems[c].bounds.Y = ContentBox(elems, Root).Y

\* ---- C15
\* The same scene with the two axes exchanged: every rectangle, offset, margin
\* and padding transposed and the flex direction flipped.
TransposeRect(r) == Rect(r.Y, r.X, r.Height, r.Width)

TransposeSpacing(sp) == Spacing(sp.Left, sp.Bottom, sp.Right, sp.Top)

Transposed(els) ==
    [e \in Elems |->
        [els[e] EXCEPT !.bounds = TransposeRect(@),
                       !.relativePos = Point(@.Y, @.X),
                       !.boxModel = BoxModel(TransposeSpacing(@.Margin), TransposeSpacing(@.Padding)),
                       !.flexDirection = IF @ = "FlexRow" THEN "FlexColumn" ELSE "FlexRow"]]

\* C15: column layout is the transpose of row layout: the layout pass run on
\* the transposed scene yields the transpose of what it yields on the scene,
\* for every alignItems value and spacing.
C15_ColumnIsTransposeOfRow ==
    updateLayout(Transposed(elems), Root) = Transposed(updateLayout(elems, Root))

\* A column container with padding holds two children of different sizes,
\* centred and spaced, right after a layout pass.
C15_Witness ==
    /\ LaidOut
    /\ elems[Root].flexDirection = "FlexColumn"
    /\ elems[Root].alignItems = "AlignCenter"
    /\ elems[Root].spacing = 1
    /\ elems[Root].boxModel.Padding.Left = 1
    /\ Len(elems[Root].children) = 2
    /\ elems["b2"].bounds.Y > elems["b1"].bounds.Y + elems["b1"].bounds.Height

\* ---- C16
\* C16: after AddChild, RemoveChild or SetSpacing on a row FlexContainer whose
\* children have positive widths, the children's ComputedBounds are ordered
\* left to right without overlap, and a point inside the rectangle the layout
\* gave child i lies inside the ComputedBounds of child i and of no other
\* child.  The code does not keep this: ComputedBounds of a relative child
\* takes X and Y from the parent's bounds and the child's local offset, not
\* from the bounds the layout wrote.
C16_HitTestAgreesWithLayout ==
    (/\ LaidOut
     /\ elems[Root].flexDirection = "FlexRow"
     /\ \A i \in 1..Len(elems[Root].children) : elems[elems[Root].children[i]].bounds.Width > 0)
    => LET ch == elems[Root].children
           cb(i) == ComputedBounds(elems, ch[i])
       IN  /\ \A i \in 1..Len(ch) : \A j \in (i + 1)..Len(ch) :
                 cb(i).X + cb(i).Width <= cb(j).X
           /\ \A i \in 1..Len(ch) : \A x \in 0..8, y \in 0..8 :
                 PointInRect(Point(x, y), elems[ch[i]].bounds) =>
                    /\ PointInRect(Point(x, y), cb(i))
                    /\ \A j \in 1..Len(ch) : j # i => ~PointInRect(Point(x, y), cb(j))

\* ---- C19
\* C19: RemoveChild with a child that is not among the receiver's children
\* leaves every children sequence and the bounds of every element unchanged.
\* The code does not keep this for a FlexContainer: its RemoveChild runs the
\* layout pass whether or not a child was removed, and the pass moves the
\* children when the alignment was changed since the last pass.
C19_RemoveAbsentIsNoOp ==
    [][ (/\ last'.op = "RemoveChild"
         /\ \A e \in Elems : elems'[e].children = elems[e].children)
        => \A e \in Elems : elems'[e].bounds = elems[e].bounds ]_vars

\* ---- C17
\* C17: AddChild(parent, child) makes child the last element of
\* parent.Children(), keeps the previous children in their order, and leaves
\* child.Parent() referring to parent (to the BaseElement embedded in it).
C17_AddChildAppends ==
    [][ last'.op = "AddChild" =>
          \A p \in GraphParents, c \in GraphChildren :
             CallAddChild(p, c) =>
                /\ elems'[p].children = Append(elems[p].children, c)
                /\ elems'[c].parent.id = p ]_vars

\* An AddChild has just returned, and a receiver holds two children of which
\* the last points back at it.
C17_Witness ==
    /\ last.op = "AddChild"
    /\ \E p \in GraphParents :
          /\ Len(elems[p].children) = 2
          /\ elems[p].children[1] # elems[p].children[2]
          /\ elems[elems[p].children[2]].parent.id = p

\* ---- C18
\* C18: for every parent p and element c, also a c that already occurs in
\* p.Children(), AddChild(p, c) followed immediately by RemoveChild(p, c)
\* leaves p.Children() as it was before the AddChild.  The code does not keep
\* this when c already occurs before another child: RemoveChild removes the
\* first occurrence of c, not the one AddChild appended.
C18_AddThenRemoveRestores ==
    \A p \in GraphParents, c \in GraphChildren :
       Element_RemoveChild(Element_AddChild(elems, p, c), p, c)[p].children
          = elems[p].children

\* ---- C20
\* The elements reachable from e by following Children() one or more times.
ChildSet(els, S) == UNION { { els[e].children[i] : i \in 1..Len(els[e].children) } : e \in S }

RECURSIVE ReachWithin(_, _, _)
ReachWithin(els, S, n) ==
    IF n = 0 THEN S ELSE ReachWithin(els, S \cup ChildSet(els, S), n - 1)

Descendants(els, e) == ReachWithin(els, ChildSet(els, {e}), Cardinality(Elems))

\* C20: after any sequence of AddChild, RemoveChild and RemoveAllChildren
\* calls no element is reachable from itself by following Children().  The
\* code does not keep this: AddChild appends whatever it is given.
C20_Acyclic ==
    \A e \in Elems : e \notin Descendants(elems, e)

\* ---- C21
\* How many times c occurs in the children sequences of all elements.
Occurrences(els, c) ==
    LET n(p) == Cardinality({ i \in 1..Len(els[p].children) : els[p].children[i] = c })
    IN  n("root") + n("pane") + n("b1") + n("b2")

\* C21: in every reachable state an element occurs in at most one children
\* sequence and at most once, and c is in p.Children() exactly when c.Parent()
\* refers to p; so after RemoveChild(p, c) or p.RemoveAllChildren() c no longer
\* reports p as its parent.  The code does not keep this: RemoveChild and
\* RemoveAllChildren never touch the child's parent field, and AddChild neither
\* detaches the child from its previous parent nor looks for a duplicate.
C21_ExclusiveOwnership ==
    /\ \A c \in Elems : Occurrences(elems, c) <= 1
    /\ \A p \in Elems, c \in Elems :
          (\E i \in 1..Len(elems[p].children) : elems[p].children[i] = c)
             <=> elems[c].parent.id = p

\* ---- C22
\* The children sequences and the bounds of all elements: what a layout pass
\* can be observed by.
Placement(els) == [e \in Elems |-> [children |-> els[e].children, bounds |-> els[e].bounds]]

\* C22: justifyContent has no influence on layout.  From two containers that
\* differ only in the value given to SetJustifyContent, every AddChild,
\* RemoveChild and SetSpacing call yields the same children and the same
\* bounds, and leaves the two containers differing only in justifyContent; so
\* the same holds after any sequence of these calls.  SetJustifyContent itself
\* moves nothing.
C22_JustifyContentIgnored ==
    \A j \in Alignments :
       LET other == [elems EXCEPT ![Root].justifyContent = j]
           same(a, b) == /\ Placement(a) = Placement(b)
                         /\ [a EXCEPT ![Root].justifyContent = j] = b
       IN  /\ \A c \in Buttons :
                 /\ same(FlexContainer_AddChild(elems, Root, c),
                         FlexContainer_AddChild(other, Root, c))
                 /\ same(FlexContainer_RemoveChild(elems, Root, c),
                         FlexContainer_RemoveChild(other, Root, c))
           /\ \A s \in 0..MaxSpacing :
                 same(FlexContainer_SetSpacing(elems, Root, s),
                      FlexContainer_SetSpacing(other, Root, s))
           /\ Placement(FlexContainer_SetJustifyContent(elems, Root, j)) = Placement(elems)

\* A container whose justifyContent was set to end has laid out two children
\* that leave free space on the main axis.
C22_Witness ==
    /\ LaidOut
    /\ elems[Root].justifyContent = "AlignEnd"
    /\ elems[Root].children = <<"b1", "b2">>
    /\ elems["b1"].bounds.X = ContentBox(elems, Root).X
    /\ elems["b1"].bounds.Width + elems["b2"].bounds.Width + elems[Root].spacing
          < ContentBox(elems, Root).Width

\* ---- C23
\* The elements of a children sequence.
ChildrenOf(els, p) == { els[p].children[i] : i \in 1..Len(els[p].children) }

\* C23: a FlexContainer's layout pass changes only the local bounds of its
\* direct children.  Every AddChild, RemoveChild and SetSpacing call on the
\* container leaves the bounds of every element that is not one of its
\* children (its grandchildren, deeper descendants and the container itself)
\* and the main-axis size of each child as they were; and the pass alone, run
\* in any state, changes no field of any element but the bounds of the direct
\* children.
C23_LayoutTouchesDirectChildrenOnly ==
    [][ /\ LayoutStep =>
              /\ \A e \in Elems \ ChildrenOf(elems', Root) :
                    elems'[e].bounds = elems[e].bounds
              /\ \A c \in ChildrenOf(elems', Root) :
                    IF elems'[Root].flexDirection = "FlexRow"
                    THEN elems'[c].bounds.Width = elems[c].bounds.Width
                    ELSE elems'[c].bounds.Height = elems[c].bounds.Height
        /\ LET after == updateLayout(elems, Root)
           IN  \A e \in Elems :
                  /\ [after[e] EXCEPT !.bounds = elems[e].bounds] = elems[e]
                  /\ e \notin ChildrenOf(elems, Root) => after[e] = elems[e] ]_vars

\* A stretching layout pass has moved and resized the pane, a child of the
\* padded root that holds b2 as its own child; b2 is where the setup put it.
C23_Witness ==
    /\ LaidOut
    /\ elems[Root].alignItems = "AlignStretch"
    /\ "pane" \in ChildrenOf(elems, Root)
    /\ elems["pane"].children = <<"b2">>
    /\ elems["pane"].bounds # Rect(0, 0, 2, 2)
    /\ elems["pane"].bounds.X > 0
    /\ elems["b2"].bounds = Rect(0, 0, 2, 1)

\* ---- observations of a frame
\* The calls a child loop of p made, taken from the calls of one handler or
\* of one Draw, in call order.
CallsBy(trace, p) == SelectSeq(trace, LAMBDA t : t.by = p)

\* The elements called, in call order.
Called(trace) == [i \in 1..Len(trace) |-> trace[i].e]

\* The positions in the trace of the handler calls that invoked onClick.
Fired(trace) == { k \in 1..Len(trace) : trace[k].fired }

\* The call at position k and the calls it is nested in, up to the root's.
RECURSIVE CallChain(_, _)
CallChain(trace, k) ==
    LET callers == { j \in 1..(k - 1) : trace[j].e = trace[k].by }
    IN  IF callers = {} THEN {k}
        ELSE {k} \cup CallChain(trace, CHOOSE j \in callers : \A i \in callers : i <= j)

\* ---- C24
\* C24: a structural mutation made by a click callback during HandleMouseUp
\* is visible to every later operation of the same frame.  When HandleMouseUp
\* returns, the container's Children() holds the element the callback added,
\* last and pointing back at the container (or is empty when the callback
\* cleared it), and the children's bounds are what a layout pass gives; the
\* HandleMouseMove of that frame offers the event to the new last child first,
\* and Draw calls Draw on exactly the new children, in order.
C24_MutationVisibleInSameTick ==
    [][ (last'.op = "Tick" /\ ~last'.held /\ Fired(last'.trace) # {}) =>
          LET k    == CHOOSE k \in Fired(last'.trace) : TRUE
              cb   == elems[last'.trace[k].e].callback
              mid  == last'.mid
              kids == mid[Root].children
          IN  /\ (cb.op = "AddChild" /\ ~Attached(elems, cb.c)) =>
                    /\ kids = Append(elems[cb.p].children, cb.c)
                    /\ mid[cb.c].parent.id = cb.p
              /\ cb.op = "RemoveAllChildren" => mid[cb.p].children = <<>>
              /\ updateLayout(mid, Root) = mid
              /\ elems'[Root].children = kids
              /\ LET offered == CallsBy(last'.move, Root)
                 IN  /\ Len(offered) <= Len(kids)
                     /\ Len(kids) > 0 => Len(offered) > 0
                     /\ \A i \in 1..Len(offered) : offered[i].e = kids[Len(kids) + 1 - i]
              /\ Called(CallsBy(last'.drawn, Root)) = kids ]_vars

\* The click on b1 has added b2 to the root during HandleMouseUp: the root
\* holds b1 and b2, b2 has been placed after b1 by the layout pass, the
\* HandleMouseMove of the same frame called b2 first and Draw drew b1, then b2.
C24_Witness ==
    /\ last.op = "Tick"
    /\ ~last.held
    /\ \E k \in Fired(last.trace) : last.trace[k].e = "b1"
    /\ last.mid[Root].children = <<"b1", "b2">>
    /\ last.mid["b2"].bounds.X = last.mid["b1"].bounds.X + last.mid["b1"].bounds.Width
    /\ CallsBy(last.move, Root)[1].e = "b2"
    /\ Called(CallsBy(last.drawn, Root)) = <<"b1", "b2">>

\* ---- C25
\* C25: no dispatch reads a child index outside the current children
\* sequence, also when a click callback run during the dispatch adds children
\* to or removes children from an ancestor: the handler that ran the callback
\* is the last one called in that dispatch, and it and every handler it is
\* nested in, up to the root's, return true.
C25_NoIndexOutOfRange ==
    last.op = "Tick" =>
       /\ \A i \in 1..Len(last.trace) : last.trace[i].e # "panic"
       /\ \A i \in 1..Len(last.move) : last.move[i].e # "panic"
       /\ \A k \in Fired(last.trace) :
             /\ k = Len(last.trace)
             /\ \A j \in CallChain(last.trace, k) : last.trace[j].ret
             /\ last.ret

\* b2, the last child of the root with b1 before it, was clicked and its
\* callback cleared the root while the root's loop was at b2's index.
C25_Witness ==
    /\ last.op = "Tick"
    /\ ~last.held
    /\ last.mid[Root].children = <<>>
    /\ last.mid["b1"].parent.id = Root
    /\ \E k \in Fired(last.trace) :
          /\ last.trace[k].e = "b2"
          /\ last.trace[k].by = Root
          /\ k = 2

\* ---- C26
\* C26 as stated: an enabled Button's click callback fires on HandleMouseUp
\* whenever the point lies inside the button's ComputedBounds, whatever
\* received the preceding HandleMouseDown.
C26_ClickWheneverReleasedInside ==
    last.op = "HandleMouseUp" =>
       \A k \in 1..Len(last.trace) :
          LET t == last.trace[k]
          IN  (Kind[t.e] = "Button" /\ ~elems[t.e].disabled /\ elems[t.e].onClick /\ t.inside)
                 => t.fired

\* C26, amended: a Button's click callback fires on HandleMouseUp exactly when
\* the button is enabled, the point lies inside its ComputedBounds and its own
\* pressed flag was set when the handler was entered; the flag is the
\* button's only record of the press, so a release inside a button that was
\* not pressed does not click it.
C26_ClickNeedsOwnPress ==
    last.op = "HandleMouseUp" =>
       \A k \in 1..Len(last.trace) :
          LET t == last.trace[k]
          IN  (Kind[t.e] = "Button" /\ elems[t.e].onClick)
                 => (t.fired <=> (t.was /\ t.inside /\ ~elems[t.e].disabled))

\* An enabled button that was not pressed has received the release inside its
\* bounds and did not click, while another button, which was pressed, did.
C26_Witness ==
    /\ last.op = "HandleMouseUp"
    /\ \E k \in 1..Len(last.trace) :
          LET t == last.trace[k]
          IN  /\ Kind[t.e] = "Button"
              /\ ~elems[t.e].disabled /\ elems[t.e].onClick
              /\ t.inside /\ ~t.was /\ ~t.fired
    /\ \E k \in 1..Len(last.trace) :
          LET t == last.trace[k]
          IN  Kind[t.e] = "Button" /\ t.inside /\ t.was /\ t.fired

\* ---- C27
\* C27: for a Select, after any sequence of SetOptions and SetSelectedIndex
\* calls, -1 <= selectedIndex < len(options); SetSelectedIndex with an index
\* below -1 or at or above len(options) leaves selectedIndex unchanged and
\* does not invoke onChange; and GetSelectedOption returns the empty string
\* when nothing is selected.
C27_SelectedIndexInRange ==
    /\ sel.selectedIndex >= -1
    /\ sel.selectedIndex < Len(sel.options)
    /\ sel.selectedIndex = -1 => Select_GetSelectedOption(sel) = ""
    /\ (/\ last.op = "SetSelectedIndex"
        /\ (last.index < -1 \/ last.index >= Len(sel.options)))
       => (sel.selectedIndex = last.before /\ last.calls = <<>>)

\* With the second of two options selected, SetSelectedIndex(2) was called: the
\* selection is still the second option and onChange was not called.
C27_Witness ==
    /\ last.op = "SetSelectedIndex"
    /\ Len(sel.options) = 2
    /\ last.index = 2
    /\ last.before = 1
    /\ sel.selectedIndex = 1
    /\ last.calls = <<>>
    /\ Select_GetSelectedOption(sel) = sel.options[2]

\* ---- C28
\* C28: Draw visits a node's children depth-first in insertion order, which
\* is the reverse of the order in which HandleMouseDown offers the event to
\* the same children; so among the children of a node that is drawn and
\* passes the event on, the one painted topmost at the point (the last in
\* insertion order whose painted rectangle contains it) is the child that
\* takes the event, and no child takes an event at a point where none is
\* painted.  The code does not keep the last part: Draw skips an element
\* that is not visible, while the handlers never look at the visibility flag.
C28_TopmostDrawnIsHit ==
    last.op = "Draw" =>
       /\ \A k \in 1..Len(last.drawn) :
             last.drawn[k].painted =>
                Called(CallsBy(last.drawn, last.drawn[k].e)) = elems[last.drawn[k].e].children
       /\ \A x \in Coords, y \in Coords :
             LET r == Handle("Down", elems, Root, Host, x, y)
             IN  \A k \in 1..Len(r.trace) :
                    LET p       == r.trace[k].e
                        kids    == elems[p].children
                        offered == CallsBy(r.trace, p)
                        shown   == { i \in 1..Len(kids) :
                                       \E d \in 1..Len(last.drawn) :
                                          /\ last.drawn[d].e = kids[i]
                                          /\ last.drawn[d].by = p
                                          /\ last.drawn[d].painted
                                          /\ PointInRect(Point(x, y), last.drawn[d].at) }
                    IN  /\ \A i \in 1..Len(offered) : offered[i].e = kids[Len(kids) + 1 - i]
                        /\ \A i \in 1..Len(offered) :
                              offered[i].ret =>
                                 /\ shown # {}
                                 /\ \A j \in shown : j <= Len(kids) + 1 - i
                                 /\ (Len(kids) + 1 - i) \in shown
                        /\ (r.trace[k].ret /\ shown # {}) =>
                              \E i \in 1..Len(offered) : offered[i].ret

\* ---- C29
\* The ids of the todos of the list, and what a step may do to them: the
\* todos in gone leave the map and the children, every other todo stays a
\* child at its place in the order with its id and text, and the children are
\* the todos of the map, each once.
TodoIDs(tl) == { t.item.ID : t \in tl.todos }
LeavesOnly(tl, tl2, gone) ==
    /\ TodoIDs(tl2) = TodoIDs(tl) \ gone
    /\ tl2.children = SelectSeq(tl.children, LAMBDA id : id \notin gone)
    /\ \A id \in TodoIDs(tl2) :
          /\ TodoOf(tl2, id).item.ID = TodoOf(tl, id).item.ID
          /\ TodoOf(tl2, id).item.Text = TodoOf(tl, id).item.Text
          /\ Cardinality({ i \in 1..Len(tl2.children) : tl2.children[i] = id }) = 1
    /\ \A i \in 1..Len(tl2.children) : tl2.children[i] \in TodoIDs(tl2)

\* C29: on a TodoList, ClearCompleted removes exactly the todos whose
\* checkbox is checked, RemoveTodo(id) removes exactly the todo with that id
\* (none when there is no such todo), a checkbox toggle removes none, and
\* AddTodo appends one todo with a fresh id; every other todo remains a child
\* with its id and text unchanged.
C29_TodoListRemovesExactly ==
    [][ /\ last'.op = "ClearCompleted" =>
              LeavesOnly(list, list', { t.item.ID : t \in { u \in list.todos : u.checked } })
        /\ last'.op = "RemoveTodo" => LeavesOnly(list, list', {last'.id})
        /\ last'.op = "Toggle" =>
              /\ LeavesOnly(list, list', {})
              /\ TodoOf(list', last'.id).checked = ~TodoOf(list, last'.id).checked
        /\ last'.op = "AddTodo" =>
              /\ last'.id \notin TodoIDs(list)
              /\ LeavesOnly(list, [list' EXCEPT !.children = SubSeq(@, 1, Len(@) - 1),
                                                !.todos = @ \ {TodoOf(list', last'.id)}], {})
              /\ list'.children = Append(list.children, last'.id)
              /\ ~TodoOf(list', last'.id).checked
      ]_vars

\* Three todos were added, the first was ticked and the third deleted, and
\* ClearCompleted has just removed the first: the second is the only todo
\* left, with its text.
C29_Witness ==
    /\ last.op = "ClearCompleted"
    /\ last.removed = <<TodoID(1)>>
    /\ list.nextID = 4
    /\ list.children = <<TodoID(2)>>
    /\ TodoIDs(list) = {TodoID(2)}
    /\ TodoOf(list, TodoID(2)).item.Text = "Walk the dog"
    /\ ~TodoOf(list, TodoID(2)).checked

Apart(r, q) ==
    \/ r.X + r.Width <= q.X \/ q.X + q.Width <= r.X
    \/ r.Y + r.Height <= q.Y \/ q.Y + q.Height <= r.Y

\* C31: after HandleMouseMove(x, y) on the root, every Button in the tree has
\* hovered equal to whether (x, y) is inside its ComputedBounds (the point is
\* any one that agrees with what the handlers called saw), and two sibling
\* buttons with disjoint ComputedBounds are not hovered together.  The code
\* does not keep this: the child loop stops at the first child that returns
\* true, so a button offered the event after it keeps its old hovered flag.
C31_HoverFollowsPointer ==
    last.op = "HandleMouseMove" =>
       /\ \E x \in Coords, y \in Coords :
             /\ \A i \in 1..Len(last.trace) :
                   last.trace[i].inside =
                      PointInRect(Point(x, y), ComputedBounds(elems, last.trace[i].e))
             /\ \A b \in Buttons \cap Descendants(elems, Root) :
                   elems[b].hovered = PointInRect(Point(x, y), ComputedBounds(elems, b))
       /\ \A b \in Buttons, c \in Buttons :
             ( /\ b # c
               /\ \E p \in {Root} \cup Descendants(elems, Root) :
                     /\ IndexOf(elems[p].children, b) > 0
                     /\ IndexOf(elems[p].children, c) > 0
               /\ Apart(ComputedBounds(elems, b), ComputedBounds(elems, c)) )
             => ~(elems[b].hovered /\ elems[c].hovered)

\* ---- C32
\* C32: a Button's click callback is never invoked without a press: each
\* onClick call made by HandleMouseUp finds an open press of this button (a
\* HandleMouseDown called on it with the point inside its bounds, and no
\* HandleMouseUp called on it since), and the call closes the press; so one
\* press yields at most one click, and a HandleMouseUp on a button with no
\* open press invokes nothing.
C32_NoClickWithoutPress ==
    last.op = "HandleMouseUp" =>
       \A i \in 1..Len(last.trace) :
          LET t == last.trace[i]
          IN  t.e \in Buttons =>
                 /\ t.fired => t.e \in last.before
                 /\ t.e \notin last.pending
                 /\ ~elems[t.e].pressed

\* A HandleMouseUp clicked a button whose press was open, and closed it,
\* while it reached another enabled button with no open press, inside or
\* outside its bounds, and invoked nothing there.
C32_Witness ==
    /\ last.op = "HandleMouseUp"
    /\ \E i \in 1..Len(last.trace), j \in 1..Len(last.trace) :
          LET t == last.trace[i]
              u == last.trace[j]
          IN  /\ t.e \in Buttons /\ t.fired /\ t.e \in last.before
              /\ t.e \notin last.pending
              /\ u.e \in Buttons \ {t.e} /\ ~u.fired /\ u.e \notin last.before
              /\ ~elems[u.e].disabled /\ elems[u.e].onClick

\* ---- C33
\* C33: while a Button is disabled it never becomes pressed and never invokes
\* its click callback: a HandleMouseDown called on it returns false and
\* leaves pressed as it was, and a HandleMouseUp called on it returns false,
\* invokes nothing and clears pressed, also when the button was pressed
\* before it was disabled.
C33_DisabledButtonInert ==
    [][ \A b \in Buttons :
           elems[b].disabled =>
              /\ ~elems[b].pressed => ~elems'[b].pressed
              /\ last'.op \in {"HandleMouseDown", "HandleMouseUp"} =>
                    \A i \in 1..Len(last'.trace) :
                       last'.trace[i].e = b =>
                          /\ ~last'.trace[i].ret
                          /\ ~last'.trace[i].fired
                          /\ last'.op = "HandleMouseDown" => elems'[b].pressed = elems[b].pressed
                          /\ last'.op = "HandleMouseUp" => ~elems'[b].pressed
      ]_vars

\* A HandleMouseUp reached, inside its bounds, a disabled button that had
\* been pressed before it was disabled: it returned false, invoked nothing
\* and left the button not pressed.
C33_Witness ==
    /\ last.op = "HandleMouseUp"
    /\ \E i \in 1..Len(last.trace) :
          LET t == last.trace[i]
          IN  /\ t.e \in Buttons /\ elems[t.e].disabled /\ elems[t.e].onClick
              /\ t.was /\ t.inside /\ t.e \in last.before
              /\ ~t.ret /\ ~t.fired
              /\ ~elems[t.e].pressed

\* ---- C34
\* C34: FlexContainer.HandleMouseDown(x, y) returns true exactly when (x, y)
\* is inside the container's ComputedBounds, whether or not a child handles
\* the event, and calls no child when the point is outside; HandleMouseUp
\* and HandleMouseMove make no bounds check, offer the event to the children
\* wherever the point is, and return true exactly when a child returns true.
C34_ContainerRouting ==
    last.op \in {"HandleMouseDown", "HandleMouseUp", "HandleMouseMove"} =>
       LET t       == last.trace[1]
           offered == CallsBy(last.trace, Root)
           taken   == \E i \in 1..Len(offered) : offered[i].ret
       IN  /\ t.e = Root
           /\ taken \/ ~t.inside \/ Len(offered) = Len(elems[Root].children)
           /\ last.op = "HandleMouseDown" =>
                 /\ t.ret = t.inside
                 /\ ~t.inside => Len(last.trace) = 1
           /\ last.op # "HandleMouseDown" =>
                 /\ t.ret = taken
                 /\ taken \/ Len(offered) = Len(elems[Root].children)

\* A HandleMouseUp at a point outside the root's bounds was passed on to the
\* children and taken by one of them, so the root returned true.
C34_Witness ==
    /\ last.op = "HandleMouseUp"
    /\ ~last.trace[1].inside
    /\ last.trace[1].ret
    /\ Len(last.trace) > 1

\* ---- C35
\* C35: only AddChild, RemoveChild and SetSpacing run the layout pass of a
\* FlexContainer.  SetFlexDirection, SetAlignItems, SetJustifyContent,
\* SetBoxModel and RemoveAllChildren on the container change no bounds at
\* all, and SetBounds changes the bounds of the element it is called on and
\* no others; after AddChild, RemoveChild and SetSpacing the children lie
\* as the layout pass places them.
C35_OnlyThreeCallsLayOut ==
    [][ /\ last'.op \in {"SetFlexDirection", "SetAlignItems", "SetJustifyContent",
                         "SetBoxModel", "RemoveAllChildren"} =>
              \A e \in Elems : elems'[e].bounds = elems[e].bounds
        /\ last'.op = "SetBounds" =>
              \A e \in Elems \ {last'.e} : elems'[e].bounds = elems[e].bounds
        /\ last'.op \in {"AddChild", "RemoveChild", "SetSpacing"} =>
              updateLayout(elems', Root) = elems'
      ]_vars

\* SetFlexDirection was called on a container with two children, and the
\* children still lie where the pass for the old settings put them: a layout
\* pass now would move them.
C35_Witness ==
    /\ last.op = "SetFlexDirection"
    /\ Len(elems[Root].children) = 2
    /\ updateLayout(elems, Root) # elems

\* ---- C36
\* The last value watcher w was handed in these calls (-1 when it was not
\* called).
LastSeen(calls, w) ==
    LET at == { k \in 1..Len(calls) : calls[k].w = w }
    IN  IF at = {} THEN -1 ELSE calls[CHOOSE k \in at : \A j \in at : j <= k].v

\* C36: with watchers that call Update or Watch on the State they watch,
\* every Update and Watch call of the application returns; when an Update
\* has returned, the last value each watcher was handed is State.Value();
\* and a watcher registered during a pass is invoked by its own Watch call
\* and not by the pass that was running.  The code does not keep the first
\* part: a watcher that calls Update whenever it is invoked is invoked again
\* by the pass of that Update, without end.
C36_ReentrantUpdateSettles ==
    last.op \in {"Update", "Watch"} =>
       /\ ~last.over
       /\ last.op = "Update" =>
             \A w \in 1..Len(state.watchers) : LastSeen(last.calls, w) = State_Value(state)
       /\ \A k \in 1..Len(last.calls) :
             /\ last.calls[k].how = "pass" => last.calls[k].w <= last.calls[k].n
             /\ last.calls[k].w > last.before =>
                   \E j \in 1..k : /\ last.calls[j].w = last.calls[k].w
                                   /\ last.calls[j].how = "watch"

\* ---- C37
\* C37: Checkbox.HandleMouseDown toggles on every call that lands inside its
\* ComputedBounds: the call flips checked, invokes checkedChanged (when one
\* is set) once with the new value and returns true, so two such calls in a
\* row restore the flag; a call outside the bounds returns false, invokes
\* nothing and changes nothing; SetChecked stores the flag and never invokes
\* the handler.
C37_CheckboxTogglesOnEveryPress ==
    [][ /\ last'.op = "CheckboxDown" =>
              /\ last'.ret = last'.inside
              /\ last'.inside =>
                    /\ check'.checked = ~check.checked
                    /\ last'.calls = IF check.checkedChanged THEN <<check'.checked>> ELSE <<>>
                    /\ last'.n = 2 => check'.checked = last'.origin
              /\ ~last'.inside => check' = check /\ last'.calls = <<>>
              /\ check'.checkedChanged = check.checkedChanged
        /\ last'.op = "SetChecked" =>
              /\ check'.checked = last'.checked
              /\ last'.calls = <<>>
              /\ check'.checkedChanged = check.checkedChanged
      ]_vars

\* Two HandleMouseDown calls in a row landed inside a checkbox with a
\* handler: the second one unchecked it again and told the handler so.
C37_Witness ==
    /\ last.op = "CheckboxDown"
    /\ last.n = 2 /\ last.inside /\ last.ret
    /\ check.checkedChanged
    /\ last.origin = FALSE /\ check.checked = FALSE
    /\ last.calls = <<FALSE>>

\* ---- C38
\* C38: for a tab set built by UI.Tabs with one tab or more, exactly one tab
\* content container is visible in every reachable state: the first one
\* after construction, and container i after a click on tab header i.
C38_ExactlyOneTabVisible ==
    /\ Cardinality({ j \in 1..Len(tabs.visible) : tabs.visible[j] }) = 1
    /\ last.op = "Setup" => tabs.visible[1]
    /\ last.op = "ClickTab" => tabs.visible[last.index]

\* In a set of three tabs the header of the third was clicked: the third
\* content container is the visible one and the first is hidden.
C38_Witness ==
    /\ last.op = "ClickTab"
    /\ last.index = 3
    /\ Len(tabs.visible) = 3
    /\ tabs.visible = <<FALSE, FALSE, TRUE>>

\* ---- C39
\* The ids of the children of the list, and the number n of the id todo_n.
ChildIDs(tl) == { tl.children[i] : i \in 1..Len(tl.children) }
TodoNumber(id) == id[2]

\* The map and the children hold the same ids, one child and one Todo per
\* id, every id is todo_n with 1 <= n < nextID, and the children lie in the
\* order of their numbers.
TodoListConsistent(tl) ==
    /\ TodoIDs(tl) = ChildIDs(tl)
    /\ Cardinality(ChildIDs(tl)) = Len(tl.children)
    /\ Cardinality(tl.todos) = Cardinality(TodoIDs(tl))
    /\ \A id \in TodoIDs(tl) : id = TodoID(TodoNumber(id)) /\ TodoNumber(id) \in 1..(tl.nextID - 1)
    /\ \A i, j \in 1..Len(tl.children) :
          i < j => TodoNumber(tl.children[i]) < TodoNumber(tl.children[j])

\* C39: after any sequence of AddTodo, RemoveTodo and ClearCompleted the ids
\* in the todos map are exactly the ids of the children, one child per id;
\* the k-th AddTodo assigns todo_k (nextID starts at 1, AddTodo uses it and
\* adds one, no other operation changes it), so an id, once removed, is
\* never assigned again.
C39_TodoIdsMatchChildren ==
    [][ /\ TodoListConsistent(list) /\ TodoListConsistent(list')
        /\ list.nextID >= 1
        /\ IF last'.op = "AddTodo"
           THEN /\ list'.nextID = list.nextID + 1
                /\ TodoIDs(list') = TodoIDs(list) \cup {TodoID(list.nextID)}
                /\ list'.children = Append(list.children, TodoID(list.nextID))
                /\ last'.id = TodoID(list.nextID)
           ELSE /\ list'.nextID = list.nextID
                /\ TodoIDs(list') \subseteq TodoIDs(list)
      ]_vars

\* todo_2 was removed from a list of two and a Todo was added after that:
\* it is todo_3, behind todo_1, and todo_2 is not back.
C39_Witness ==
    /\ last.op = "AddTodo"
    /\ last.id = TodoID(3)
    /\ list.children = <<TodoID(1), TodoID(3)>>
    /\ TodoIDs(list) = {TodoID(1), TodoID(3)}
    /\ list.nextID = 4

\* ---- C40
\* els with the visible flags of vis.
WithVisible(els, vis) == [e \in Elems |-> [els[e] EXCEPT !.visible = vis[e].visible]]

\* The elements a Draw of the root painted.
Painted(drawn) == { drawn[i].e : i \in { j \in 1..Len(drawn) : drawn[j].painted } }

\* C40: visibility affects drawing only.  A Draw paints no element that is
\* not visible and none of its descendants, and calls Draw on no descendant
\* of it; SetVisible changes the visible flag alone, and for every pointer
\* event the handlers return the same value, make the same calls with the
\* same outcomes and leave the same element state (the flag apart) after it
\* as before it; no handler changes a visible flag.
C40_VisibilityAffectsDrawingOnly ==
    [][ /\ last'.op = "Draw" =>
              \A e \in Elems : ~elems[e].visible =>
                  /\ Subtree(elems, e) \cap Painted(last'.drawn) = {}
                  /\ \A i \in 1..Len(last'.drawn) :
                        last'.drawn[i].e \notin Subtree(elems, e) \ {e}
        /\ last'.op = "SetVisible" =>
              /\ elems' = WithVisible(elems, elems')
              /\ \A op \in {"Down", "Up", "Move"}, x \in Coords, y \in Coords :
                    \A r1 \in {Handle(op, elems, Root, Host, x, y)},
                       r2 \in {Handle(op, elems', Root, Host, x, y)} :
                        /\ r2.ret = r1.ret
                        /\ r2.trace = r1.trace
                        /\ r2.els = WithVisible(r1.els, elems')
        /\ last'.op \in {"HandleMouseDown", "HandleMouseUp", "HandleMouseMove"} =>
              \A e \in Elems : elems'[e].visible = elems[e].visible
      ]_vars

\* A button inside a hidden pane, itself hidden, was pressed and released:
\* its HandleMouseUp fired onClick.
C40_Witness ==
    /\ last.op = "HandleMouseUp"
    /\ \E i \in 1..Len(last.trace) :
          /\ last.trace[i].e = "b2" /\ last.trace[i].fired
          /\ last.trace[i].by = "pane"
    /\ ~elems["pane"].visible /\ ~elems["b2"].visible

====
